---- MODULE Spec2Model ----
(***************************************************************************)
(* A model of reddis2: the RESP command parser (src/src/cmd/parser.rs),    *)
(* the typed keyspace and its per-type operations (src/src/*_ops.rs) and   *)
(* the mio event loop that reads, parses, executes and answers             *)
(* (src/src/main.rs).                                                      *)
(*                                                                         *)
(* Bytes are one-character strings, byte strings are sequences of them.    *)
(***************************************************************************)
EXTENDS Integers, Sequences, FiniteSets, TLC

VARIABLES
    hmap,                \* main.rs:53   HashMap<Bytes, StoredValue>
    clients,             \* main.rs:65   HashMap<Token, Client>: token -> [read_buf]
    next_token_id,       \* main.rs:66
    latency_histograms,  \* main.rs:69   verb -> number of samples
    status,              \* the process: "running", "panicked" (a panic unwound main)
                         \*   or "exited" (main returned Err through `?`)
    now,                 \* the monotonic clock (Instant::now()), in milliseconds
    net,                 \* the peers and the kernel's sockets, one per token
    log,                 \* history: the commands executed so far, oldest first
    last                 \* history: what the latest handler run did

vars == <<hmap, clients, next_token_id, latency_histograms, status, now, net, log, last>>

(***************************************************************************)
(* Bounds of the model.                                                    *)
(***************************************************************************)
MaxClients == 2      \* connections ever accepted
MaxSends   == 2      \* frames sent and connections closed by the peers
MaxSplits  == 1      \* of which so many are delivered in two TCP segments
MaxRequests == 3     \* commands in one run of SpecKeys, SpecCount, SpecList
MaxWire    == 2      \* inputs in one run of SpecWire
MaxNow     == 1000   \* the clock stops advancing here (milliseconds)
NumSat     == 100000 \* decimal numerals saturate here while being read
int_MAX    == 127    \* stands for i64::MAX / isize::MAX (scaled to 8 bits)
uint_MAX   == 255    \* stands for usize::MAX / u64::MAX (scaled to 8 bits)
TickSteps  == {500}

(***************************************************************************)
(* Option<T>, byte strings, decimal numerals.                              *)
(***************************************************************************)
None == [some |-> FALSE]
Some(x) == [some |-> TRUE, v |-> x]

CR == "\r"
LF == "\n"
CRLF == <<CR, LF>>
SP == " "

Digits == {"0", "1", "2", "3", "4", "5", "6", "7", "8", "9"}
DigitSeq == <<"0", "1", "2", "3", "4", "5", "6", "7", "8", "9">>
DigitVal(c) == (CHOOSE n \in 1..10 : DigitSeq[n] = c) - 1

Min(a, b) == IF a < b THEN a ELSE b

Drop(i, n) == SubSeq(i, n + 1, Len(i))
Take(i, n) == SubSeq(i, 1, n)
starts_with(i, t) == Len(i) >= Len(t) /\ Take(i, Len(t)) = t

Lower == <<"a", "b", "c", "d", "e", "f", "g", "h", "i", "j", "k", "l", "m",
           "n", "o", "p", "q", "r", "s", "t", "u", "v", "w", "x", "y", "z">>
Upper == <<"A", "B", "C", "D", "E", "F", "G", "H", "I", "J", "K", "L", "M",
           "N", "O", "P", "Q", "R", "S", "T", "U", "V", "W", "X", "Y", "Z">>
to_ascii_uppercase(c) ==
    IF \E n \in 1..26 : Lower[n] = c
    THEN Upper[CHOOSE n \in 1..26 : Lower[n] = c]
    ELSE c
eq_ignore_ascii_case(a, b) ==
    /\ Len(a) = Len(b)
    /\ \A n \in 1..Len(a) : to_ascii_uppercase(a[n]) = to_ascii_uppercase(b[n])

\* The value of a string of decimal digits, saturating at NumSat.
RECURSIVE DecValue(_)
DecValue(s) ==
    IF s = <<>> THEN 0
    ELSE LET hi == DecValue(Take(s, Len(s) - 1))
         IN  IF hi >= NumSat THEN NumSat ELSE 10 * hi + DigitVal(s[Len(s)])

AllDigits(s) == s # <<>> /\ \A n \in 1..Len(s) : s[n] \in Digits

\* <unsigned>::from_str: an optional '+', then one or more digits, in range.
from_str_unsigned(s) ==
    LET body == IF s # <<>> /\ s[1] = "+" THEN Tail(s) ELSE s
    IN  IF AllDigits(body) /\ DecValue(body) <= uint_MAX
        THEN Some(DecValue(body)) ELSE None

\* <signed>::from_str: an optional '+' or '-', then one or more digits, in range.
from_str_signed(s) ==
    LET neg  == s # <<>> /\ s[1] = "-"
        body == IF s # <<>> /\ s[1] \in {"+", "-"} THEN Tail(s) ELSE s
    IN  IF ~AllDigits(body) THEN None
        ELSE IF neg
             THEN (IF DecValue(body) <= int_MAX + 1 THEN Some(0 - DecValue(body)) ELSE None)
             ELSE (IF DecValue(body) <= int_MAX THEN Some(DecValue(body)) ELSE None)

\* ToString for a natural number.
RECURSIVE NatToString(_)
NatToString(n) ==
    IF n < 10 THEN <<DigitSeq[n + 1]>>
    ELSE NatToString(n \div 10) \o <<DigitSeq[(n % 10) + 1]>>

to_string(n) == IF n < 0 THEN <<"-">> \o NatToString(0 - n) ELSE NatToString(n)

(***************************************************************************)
(* nom results.  The parser is built from nom's `complete` combinators:    *)
(* on short input they return Err::Error, never Err::Incomplete.  A panic  *)
(* (expect, slice index) is an outcome of its own.                         *)
(***************************************************************************)
Ok(rest, v) == [r |-> "Ok", rest |-> rest, v |-> v]
ErrError == [r |-> "Error"]
ErrIncomplete == [r |-> "Incomplete"]
Panic == [r |-> "Panic"]

\* nom::bytes::complete::tag
tag(t, i) == IF starts_with(i, t) THEN Ok(Drop(i, Len(t)), t) ELSE ErrError

RECURSIVE DigitPrefixLen(_)
DigitPrefixLen(i) ==
    IF i # <<>> /\ Head(i) \in Digits THEN 1 + DigitPrefixLen(Tail(i)) ELSE 0

\* nom::character::complete::digit0 (and take_while over '0'..='9')
digit0(i) == Ok(Drop(i, DigitPrefixLen(i)), Take(i, DigitPrefixLen(i)))

\* nom::combinator::opt
opt(P(_), i) ==
    LET p == P(i)
    IN  CASE p.r = "Ok"    -> Ok(p.rest, Some(p.v))
          [] p.r = "Error" -> Ok(i, None)
          [] OTHER         -> p

\* `let (i, x) = p(i)?; ...`: the rest runs on an Ok, anything else is returned
Bind(p, K(_)) == IF p.r = "Ok" THEN K(p) ELSE p

\* `let x = v; ...`
With(v, K(_)) == K(v)

value(i) ==
    Bind(tag(<<"$">>, i), LAMBDA t1 :
    Bind(digit0(t1.rest), LAMBDA d :
    With(from_str_unsigned(d.v), LAMBDA str_size :
        IF ~str_size.some THEN Panic
        ELSE Bind(tag(CRLF, d.rest), LAMBDA t2 :
                 IF str_size.v > Len(t2.rest) THEN Panic
                 ELSE Ok(Drop(t2.rest, str_size.v), Take(t2.rest, str_size.v))))))

string(i) ==
    Bind(value(i), LAMBDA v :
    Bind(tag(CRLF, v.rest), LAMBDA t : Ok(t.rest, v.v)))

u_number(i, signed) ==
    Bind(string(i), LAMBDA s :
    With(IF signed THEN from_str_signed(s.v) ELSE from_str_unsigned(s.v), LAMBDA n :
        IF n.some THEN Ok(s.rest, n.v) ELSE Panic))

u_number_signed(i) == u_number(i, TRUE)
u_number_unsigned(i) == u_number(i, FALSE)

\* nom::multi::separated_list0(tag("\r\n"), f)
RECURSIVE separated_list0_loop(_, _, _)
separated_list0_loop(F(_), i, res) ==
    LET s == tag(CRLF, i)
    IN  IF s.r # "Ok" THEN Ok(i, res)
        ELSE LET e == F(s.rest)
             IN  CASE e.r = "Ok"    -> separated_list0_loop(F, e.rest, Append(res, e.v))
                   [] e.r = "Error" -> Ok(i, res)
                   [] OTHER         -> e

separated_list0(F(_), i) ==
    LET e == F(i)
    IN  CASE e.r = "Ok"    -> separated_list0_loop(F, e.rest, <<e.v>>)
          [] e.r = "Error" -> Ok(i, <<>>)
          [] OTHER         -> e

cmd_len(i) ==
    Bind(tag(<<"*">>, i), LAMBDA t1 :
    Bind(digit0(t1.rest), LAMBDA u :
    Bind(tag(CRLF, u.rest), LAMBDA t2 :
    With(from_str_unsigned(u.v), LAMBDA n :
        IF n.some THEN Ok(t2.rest, n.v) ELSE Panic))))

(***************************************************************************)
(* cmd: the verb table.  The match is on the exact bytes.                  *)
(***************************************************************************)
CmdTable == <<
    <<<<"P", "I", "N", "G">>, "Ping">>,
    <<<<"S", "E", "T", "E", "X">>, "SetEx">>,
    <<<<"S", "E", "T">>, "Set">>,
    <<<<"G", "E", "T">>, "Get">>,
    <<<<"L", "P", "U", "S", "H", "X">>, "LpushX">>,
    <<<<"R", "P", "U", "S", "H", "X">>, "RpushX">>,
    <<<<"L", "P", "U", "S", "H">>, "Lpush">>,
    <<<<"R", "P", "U", "S", "H">>, "Rpush">>,
    <<<<"L", "P", "O", "P">>, "Lpop">>,
    <<<<"R", "P", "O", "P">>, "Rpop">>,
    <<<<"L", "R", "A", "N", "G", "E">>, "Lrange">>,
    <<<<"H", "G", "E", "T">>, "Hget">>,
    <<<<"H", "S", "E", "T">>, "Hset">>,
    <<<<"H", "M", "G", "E", "T">>, "HMget">>,
    <<<<"H", "M", "S", "E", "T">>, "HMSet">>,
    <<<<"H", "G", "E", "T", "A", "L", "L">>, "HgetAll">>,
    <<<<"H", "I", "N", "C", "R", "B", "Y">>, "HincrBy">>,
    <<<<"E", "X", "I", "S", "T", "S">>, "Exists">>,
    <<<<"H", "E", "X", "I", "S", "T", "S">>, "Hexists">>,
    <<<<"H", "K", "E", "Y", "S">>, "Hkeys">>,
    <<<<"S", "A", "D", "D">>, "Sadd">>,
    <<<<"S", "I", "S", "M", "E", "M", "B", "E", "R">>, "Sismember">>,
    <<<<"S", "I", "N", "T", "E", "R">>, "Sinter">>,
    <<<<"S", "U", "N", "I", "O", "N">>, "Sunion">>,
    <<<<"S", "D", "I", "F", "F">>, "Sdiff">>,
    <<<<"S", "C", "A", "R", "D">>, "Scard">>,
    <<<<"S", "M", "E", "M", "B", "E", "R", "S">>, "Smembers">>,
    <<<<"Z", "A", "D", "D">>, "Zadd">>,
    <<<<"Z", "R", "A", "N", "G", "E">>, "Zrange">>,
    <<<<"Z", "R", "E", "V", "R", "A", "N", "G", "E">>, "Zrevrange">>,
    <<<<"Z", "R", "A", "N", "K">>, "Zrank">>,
    <<<<"Z", "R", "E", "V", "R", "A", "N", "K">>, "Zrevrank">>,
    <<<<"Z", "S", "C", "O", "R", "E">>, "Zscore">>,
    <<<<"Z", "R", "A", "N", "G", "E", "B", "Y", "S", "C", "O", "R", "E">>, "Zrangebyscore">>,
    <<<<"Z", "I", "N", "C", "R", "B", "Y">>, "Zincrby">>,
    <<<<"Z", "C", "A", "R", "D">>, "Zcard">>,
    <<<<"D", "E", "L">>, "Del">>,
    <<<<"I", "N", "C", "R", "B", "Y">>, "IncrBy">>,
    <<<<"I", "N", "C", "R">>, "Incr">>,
    <<<<"D", "B", "S", "I", "Z", "E">>, "DbSize">>,
    <<<<"C", "O", "M", "M", "A", "N", "D">>, "CommandDocs">>,
    <<<<"C", "O", "N", "F", "I", "G">>, "Config">>,
    <<<<"F", "L", "U", "S", "H", "D", "B">>, "FlushDb">>,
    <<<<"C", "L", "I", "E", "N", "T">>, "ClientSetInfo">>,
    <<<<"T", "T", "L">>, "Ttl">>,
    <<<<"L", "L", "E", "N">>, "LLen">> >>

cmd(i) ==
    Bind(string(i), LAMBDA s :
        IF \E n \in 1..Len(CmdTable) : CmdTable[n][1] = s.v
        THEN Ok(s.rest, CmdTable[CHOOSE n \in 1..Len(CmdTable) : CmdTable[n][1] = s.v][2])
        ELSE ErrError)

(***************************************************************************)
(* root: the grammar.  Commands are records tagged by `op`.                *)
(***************************************************************************)
B_EX == <<"E", "X">>
B_PX == <<"P", "X">>
B_NX == <<"N", "X">>
B_XX == <<"X", "X">>
B_GET == <<"G", "E", "T">>
B_KEEPTTL == <<"K", "E", "E", "P", "T", "T", "L">>
B_WITHSCORES == <<"W", "I", "T", "H", "S", "C", "O", "R", "E", "S">>
B_REV == <<"R", "E", "V">>
B_LIB_NAME == <<"L", "I", "B", "-", "N", "A", "M", "E">>

MillisPerSec == 1000

\* Duration::from_secs / Duration::from_millis, in milliseconds
from_secs(s) == s * MillisPerSec
from_millis(ms) == ms

key_only(i, op) ==
    Bind(string(i), LAMBDA k : Ok(k.rest, [op |-> op, key |-> k.v]))

key_and(i, op, name) ==
    Bind(string(i), LAMBDA k :
    Bind(string(k.rest), LAMBDA f :
        Ok(f.rest, [op |-> op, key |-> k.v] @@ (name :> f.v))))

keys_only(i, op) ==
    Bind(separated_list0(value, i), LAMBDA l : Ok(l.rest, [op |-> op, keys |-> l.v]))

push(i, op) ==
    Bind(string(i), LAMBDA k :
    Bind(separated_list0(value, k.rest), LAMBDA l :
        Ok(l.rest, [op |-> op, key |-> k.v, values |-> l.v])))

pop(i, op) ==
    Bind(string(i), LAMBDA k :
    Bind(opt(u_number_unsigned, k.rest), LAMBDA c :
        Ok(c.rest, [op |-> op, key |-> k.v, count |-> c.v])))

root_Set(i) ==
    Bind(string(i), LAMBDA k :
    Bind(string(k.rest), LAMBDA v :
    Bind(opt(string, v.rest), LAMBDA o :
        CASE ~o.v.some ->
                Ok(o.rest, [op |-> "Set", key |-> k.v, value |-> v.v, ttl |-> None])
          [] o.v.some /\ eq_ignore_ascii_case(o.v.v, B_EX) ->
                Bind(u_number_unsigned(o.rest), LAMBDA t :
                    Ok(t.rest, [op |-> "Set", key |-> k.v, value |-> v.v,
                                ttl |-> Some(from_secs(t.v))]))
          [] o.v.some /\ eq_ignore_ascii_case(o.v.v, B_PX) ->
                Bind(u_number_unsigned(o.rest), LAMBDA t :
                    Ok(t.rest, [op |-> "Set", key |-> k.v, value |-> v.v,
                                ttl |-> Some(from_millis(t.v))]))
          [] o.v.some /\ eq_ignore_ascii_case(o.v.v, B_NX) ->
                Ok(o.rest, [op |-> "SetNx", key |-> k.v, value |-> v.v])
          [] o.v.some /\ eq_ignore_ascii_case(o.v.v, B_XX) ->
                Ok(o.rest, [op |-> "SetXx", key |-> k.v, value |-> v.v])
          [] o.v.some /\ eq_ignore_ascii_case(o.v.v, B_GET) ->
                Ok(o.rest, [op |-> "SetAndGet", key |-> k.v, value |-> v.v])
          [] o.v.some /\ eq_ignore_ascii_case(o.v.v, B_KEEPTTL) ->
                Ok(o.rest, [op |-> "SetKeepTtl", key |-> k.v, value |-> v.v])
          [] OTHER -> ErrError)))

\* a variant of root_SetEx that reads the number as milliseconds
root_SetEx_millis(i) ==
    Bind(string(i), LAMBDA k :
    Bind(u_number_unsigned(k.rest), LAMBDA t :
    Bind(string(t.rest), LAMBDA v :
        Ok(v.rest, [op |-> "Set", key |-> k.v, value |-> v.v,
                    ttl |-> Some(from_millis(t.v))]))))

root_SetEx(i) ==
    Bind(string(i), LAMBDA k :
    Bind(u_number_unsigned(k.rest), LAMBDA t :
    Bind(string(t.rest), LAMBDA v :
        Ok(v.rest, [op |-> "Set", key |-> k.v, value |-> v.v,
                    ttl |-> Some(from_secs(t.v))]))))

root_IncrBy(i) ==
    Bind(string(i), LAMBDA k :
    Bind(u_number_signed(k.rest), LAMBDA n :
        Ok(n.rest, [op |-> "IncrBy", key |-> k.v, incr_by |-> n.v])))

root_Hset(i) ==
    Bind(string(i), LAMBDA k :
    Bind(separated_list0(value, k.rest), LAMBDA l :
        Ok(l.rest, [op |-> "HMset", key |-> k.v, fields_and_values |-> l.v])))

root_HMget(i) ==
    Bind(string(i), LAMBDA k :
    Bind(separated_list0(value, k.rest), LAMBDA l :
        Ok(l.rest, [op |-> "HMget", key |-> k.v, fields |-> l.v])))

\* the elements are parsed with `string`, which eats the CRLF the separator wants
root_HMSet(i) ==
    Bind(string(i), LAMBDA k :
    Bind(separated_list0(string, k.rest), LAMBDA l :
        Ok(l.rest, [op |-> "HMset", key |-> k.v, fields_and_values |-> l.v])))

root_HincrBy(i) ==
    Bind(string(i), LAMBDA k :
    Bind(string(k.rest), LAMBDA f :
    Bind(u_number_signed(f.rest), LAMBDA n :
        Ok(n.rest, [op |-> "HincrBy", key |-> k.v, field |-> f.v, incr_by |-> n.v]))))

\* raw.chunks(2): chunk[0] must be a score, chunk[1] must exist
root_Zadd(i) ==
    Bind(string(i), LAMBDA k :
    Bind(separated_list0(value, k.rest), LAMBDA l :
        LET raw == l.v
            n == (Len(raw) + 1) \div 2
        IN  IF \E c \in 1..n : \/ ~from_str_signed(raw[2 * c - 1]).some
                               \/ 2 * c > Len(raw)
            THEN Panic
            ELSE Ok(l.rest, [op |-> "Zadd", key |-> k.v,
                             members |-> [c \in 1..n |->
                                 <<from_str_signed(raw[2 * c - 1]).v, raw[2 * c]>>]])))

is_flag(o, f) == o.some /\ eq_ignore_ascii_case(o.v, f)

root_Zrange(i) ==
    Bind(string(i), LAMBDA k :
    Bind(u_number_signed(k.rest), LAMBDA a :
    Bind(u_number_signed(a.rest), LAMBDA b :
    Bind(opt(string, b.rest), LAMBDA f1 :
    Bind(IF f1.v.some THEN opt(string, f1.rest) ELSE Ok(f1.rest, None), LAMBDA f2 :
        LET withscores == is_flag(f1.v, B_WITHSCORES) \/ is_flag(f2.v, B_WITHSCORES)
            rev == is_flag(f1.v, B_REV) \/ is_flag(f2.v, B_REV)
        IN  Ok(f2.rest, [op |-> IF rev THEN "Zrevrange" ELSE "Zrange", key |-> k.v,
                         start |-> a.v, stop |-> b.v, withscores |-> withscores]))))))

root_Zrevrange(i) ==
    Bind(string(i), LAMBDA k :
    Bind(u_number_signed(k.rest), LAMBDA a :
    Bind(u_number_signed(a.rest), LAMBDA b :
    Bind(opt(string, b.rest), LAMBDA f :
        Ok(f.rest, [op |-> "Zrevrange", key |-> k.v, start |-> a.v, stop |-> b.v,
                    withscores |-> is_flag(f.v, B_WITHSCORES)])))))

root_Zrangebyscore(i) ==
    Bind(string(i), LAMBDA k :
    Bind(u_number_signed(k.rest), LAMBDA a :
    Bind(u_number_signed(a.rest), LAMBDA b :
    Bind(opt(string, b.rest), LAMBDA f :
        Ok(f.rest, [op |-> "Zrangebyscore", key |-> k.v, min |-> a.v, max |-> b.v,
                    withscores |-> is_flag(f.v, B_WITHSCORES)])))))

root_Zincrby(i) ==
    Bind(string(i), LAMBDA k :
    Bind(u_number_signed(k.rest), LAMBDA n :
    Bind(string(n.rest), LAMBDA m :
        Ok(m.rest, [op |-> "Zincrby", key |-> k.v, incr |-> n.v, member |-> m.v]))))

root_ClientSetInfo(i) ==
    Bind(string(i), LAMBDA s :
    Bind(string(s.rest), LAMBDA p :
    Bind(string(p.rest), LAMBDA v :
        Ok(v.rest, [op |-> "ClientSetInfo",
                    info |-> IF eq_ignore_ascii_case(p.v, B_LIB_NAME)
                             THEN <<"LibName", v.v>> ELSE <<"LibVersion", v.v>>]))))

root_Lrange(i) ==
    Bind(string(i), LAMBDA k :
    Bind(u_number_signed(k.rest), LAMBDA a :
    Bind(u_number_signed(a.rest), LAMBDA b :
        Ok(b.rest, [op |-> "Lrange", key |-> k.v, start |-> a.v, end |-> b.v]))))

root_arm(code, i) ==
    CASE code = "Set"           -> root_Set(i)
      [] code = "Get"           -> key_only(i, "Get")
      [] code = "SetEx"         -> root_SetEx(i)
      [] code = "Lpush"         -> push(i, "Lpush")
      [] code = "Rpush"         -> push(i, "Rpush")
      [] code = "LpushX"        -> push(i, "LpushX")
      [] code = "RpushX"        -> push(i, "RpushX")
      [] code = "Lpop"          -> pop(i, "Lpop")
      [] code = "Rpop"          -> pop(i, "Rpop")
      [] code = "CommandDocs"   -> Ok(i, [op |-> "Docs"])
      [] code = "Ping"          -> Ok(i, [op |-> "Ping"])
      [] code = "Incr"          -> key_only(i, "Incr")
      [] code = "IncrBy"        -> root_IncrBy(i)
      [] code = "Del"           -> keys_only(i, "Del")
      [] code = "DbSize"        -> Ok(i, [op |-> "DbSize"])
      [] code = "Hget"          -> key_and(i, "Hget", "field")
      [] code = "Hset"          -> root_Hset(i)
      [] code = "HMget"         -> root_HMget(i)
      [] code = "HMSet"         -> root_HMSet(i)
      [] code = "HgetAll"       -> key_only(i, "HgetAll")
      [] code = "HincrBy"       -> root_HincrBy(i)
      [] code = "Exists"        -> key_only(i, "Exists")
      [] code = "Hexists"       -> key_and(i, "Hexists", "field")
      [] code = "Hkeys"         -> key_only(i, "Hkeys")
      [] code = "Sadd"          -> push(i, "Sadd")
      [] code = "Sismember"     -> key_and(i, "Sismember", "member")
      [] code = "Sinter"        -> keys_only(i, "Sinter")
      [] code = "Sunion"        -> keys_only(i, "Sunion")
      [] code = "Sdiff"         -> keys_only(i, "Sdiff")
      [] code = "Scard"         -> key_only(i, "Scard")
      [] code = "Smembers"      -> key_only(i, "Smembers")
      [] code = "Zadd"          -> root_Zadd(i)
      [] code = "Zrange"        -> root_Zrange(i)
      [] code = "Zrevrange"     -> root_Zrevrange(i)
      [] code = "Zrank"         -> key_and(i, "Zrank", "member")
      [] code = "Zrevrank"      -> key_and(i, "Zrevrank", "member")
      [] code = "Zscore"        -> key_and(i, "Zscore", "member")
      [] code = "Zrangebyscore" -> root_Zrangebyscore(i)
      [] code = "Zincrby"       -> root_Zincrby(i)
      [] code = "Config"        -> Ok(i, [op |-> "Config"])
      [] code = "FlushDb"       -> Ok(i, [op |-> "FlushDb"])
      [] code = "ClientSetInfo" -> root_ClientSetInfo(i)
      [] code = "Ttl"           -> key_only(i, "Ttl")
      [] code = "Lrange"        -> root_Lrange(i)
      [] code = "LLen"          -> key_only(i, "LLen")
      [] code = "Zcard"         -> key_only(i, "Zcard")

root(i) ==
    Bind(opt(cmd_len, i), LAMBDA n :
    Bind(cmd(n.rest), LAMBDA c : root_arm(c.v, c.rest)))

(***************************************************************************)
(* parse: inline input is rewritten to RESP first; nom's error becomes a   *)
(* RedisError.                                                             *)
(***************************************************************************)
strip_suffix_crlf(i) ==
    IF Len(i) >= 2 /\ Drop(i, Len(i) - 2) = CRLF THEN Take(i, Len(i) - 2) ELSE i

\* <[u8]>::split(|b| b == b' '): always at least one part, possibly empty
RECURSIVE split_sp(_)
split_sp(line) ==
    IF \E n \in 1..Len(line) : line[n] = SP
    THEN LET n == CHOOSE m \in 1..Len(line) :
                      line[m] = SP /\ \A j \in 1..(m - 1) : line[j] # SP
         IN  <<Take(line, n - 1)>> \o split_sp(Drop(line, n))
    ELSE <<line>>

RECURSIVE encode_parts(_)
encode_parts(parts) ==
    IF parts = <<>> THEN <<>>
    ELSE <<"$">> \o to_string(Len(Head(parts))) \o CRLF \o Head(parts) \o CRLF
         \o encode_parts(Tail(parts))

inline_to_resp(i) ==
    LET parts == split_sp(strip_suffix_crlf(i))
    IN  <<"*">> \o to_string(Len(parts)) \o CRLF \o encode_parts(parts)

\* impl From<nom::Err<ParseFailure>> for RedisError
from_nom_err(p) ==
    CASE p.r = "Incomplete" -> [r |-> "IncompleteInput"]
      [] p.r = "Error"      -> [r |-> "Parse"]
      [] OTHER              -> [r |-> "Panic"]

\* `borrowed` tells where the operands of the command point: into the caller's
\* buffer ("input") or into the local Vec that parse drops on return ("freed").
parse(i) ==
    IF ~starts_with(i, <<"*">>) /\ ~starts_with(i, <<"$">>)
    THEN With(root(inline_to_resp(i)), LAMBDA p :
             IF p.r = "Ok" THEN [r |-> "Ok", cmd |-> p.v, borrowed |-> "freed"]
             ELSE from_nom_err(p))
    ELSE With(root(i), LAMBDA p :
             IF p.r = "Ok" THEN [r |-> "Ok", cmd |-> p.v, borrowed |-> "input"]
             ELSE from_nom_err(p))

(***************************************************************************)
(* What a client puts on the wire: a RESP array of bulk strings.           *)
(***************************************************************************)
resp_frame(tokens) == <<"*">> \o to_string(Len(tokens)) \o CRLF \o encode_parts(tokens)

(***************************************************************************)
(* StoredValue (stored_value.rs) and HashMap<Bytes, StoredValue>.          *)
(***************************************************************************)
Plain(bytes) == [t |-> "Plain", bytes |-> bytes]
TtlPlain(bytes, instant) == [t |-> "TtlPlain", bytes |-> bytes, eol |-> instant]
List(items) == [t |-> "List", items |-> items]
Dict(map) == [t |-> "Dict", map |-> map]
Set(members) == [t |-> "Set", members |-> members]
SortedSet(tree, scores) == [t |-> "SortedSet", tree |-> tree, scores |-> scores]

EmptyMap == [x \in {} |-> x]

\* HashMap::get / contains_key / insert (insert returns the value it replaced)
contains_key(h, k) == k \in DOMAIN h
get(h, k) == IF k \in DOMAIN h THEN Some(h[k]) ELSE None
insert(h, k, v) == [x \in DOMAIN h \cup {k} |-> IF x = k THEN v ELSE h[x]]

(***************************************************************************)
(* The replies Ops writes to the stream (ops.rs).                          *)
(***************************************************************************)
write_bulk_string(bytes) == [kind |-> "bulk", bytes |-> bytes]
write_array(elems, len) == [kind |-> "array", len |-> len, elems |-> elems]
write_integer(text) == [kind |-> "integer", text |-> text]
ok == [kind |-> "simple", text |-> "OK"]
pong == [kind |-> "simple", text |-> "PONG"]
key_not_found == [kind |-> "null"]
wrong_type(message) == [kind |-> "wrongtype", message |-> message]
generic_error(message) == [kind |-> "err", message |-> message]

(***************************************************************************)
(* hmap_ops.rs                                                             *)
(***************************************************************************)
\* a variant of insert_alloc that stores nothing
insert_alloc_drop(h, key, val, maybe_end_of_life) == h

insert_alloc(h, key, val, maybe_end_of_life) ==
    insert(h, key, IF maybe_end_of_life.some
                   THEN TtlPlain(val, maybe_end_of_life.v)
                   ELSE Plain(val))

\* a variant of set_if_not_exist that does not look at the key
set_if_not_exist_always(h, key, val) == insert(h, key, Plain(val))

set_if_not_exist(h, key, val) ==
    IF ~contains_key(h, key) THEN insert_alloc(h, key, val, None) ELSE h

update_if_exist(h, key, val) ==
    IF contains_key(h, key) THEN insert_alloc(h, key, val, None) ELSE h

\* the unit value `()`: what a function without a return type returns
unit == <<"(", ")">>

\* self.remove(key) for each key; the function returns nothing
\* (hmap_ops.rs:53-57), so `ret` is the unit value and no count exists
delete_all(h, keys) ==
    [hmap |-> [k \in DOMAIN h \ {keys[j] : j \in DOMAIN keys} |-> h[k]],
     ret |-> unit]

\* Instant::duration_since saturates at zero; Duration::as_secs truncates
duration_since(instant, earlier) == IF instant > earlier THEN instant - earlier ELSE 0
as_secs(dur) == dur \div MillisPerSec

\* Ok(Some(d)) | Ok(None) | Err(message)
ResOk(v) == [ok |-> TRUE, v |-> v]
ResErr(message) == [ok |-> FALSE, message |-> message]

get_ttl(h, key, t_now) ==
    LET g == get(h, key)
    IN  CASE ~g.some              -> ResOk(None)
          [] g.v.t = "TtlPlain"   -> ResOk(Some(duration_since(g.v.eol, t_now)))
          [] g.v.t = "Plain"      -> ResOk(None)
          [] OTHER                -> ResErr("cannot get the TTL for the stored value")

(***************************************************************************)
(* numerical_ops.rs.  i64 addition: with overflow checks (a debug build)   *)
(* an overflow panics, without them (a release build) it wraps.            *)
(***************************************************************************)
wrapping_add(a, b) ==
    ((a + b + int_MAX + 1) % (2 * (int_MAX + 1))) - (int_MAX + 1)

overflows(a, b) == a + b > int_MAX \/ a + b < 0 - (int_MAX + 1)

\* [hmap, res] where res is Ok(Some(bytes)) | Ok(None) | Err, or a panic
incr_by(h, key, by, overflow_checks) ==
    LET g == get(h, key)
    IN  CASE ~g.some -> [hmap |-> h, res |-> ResOk(None), panic |-> FALSE]
          [] g.some /\ g.v.t = "Plain" ->
                LET num == from_str_signed(g.v.bytes)
                IN  IF ~num.some
                    THEN [hmap |-> h, panic |-> FALSE,
                          res |-> ResErr("stored value isn't a 64 bit integer")]
                    ELSE IF overflows(num.v, by) /\ overflow_checks
                    THEN [hmap |-> h, panic |-> TRUE, res |-> ResOk(None)]
                    ELSE LET new_value == to_string(wrapping_add(num.v, by))
                         IN  [hmap |-> insert(h, key, Plain(new_value)), panic |-> FALSE,
                              res |-> ResOk(Some(new_value))]
          [] OTHER -> [hmap |-> h, panic |-> FALSE,
                       res |-> ResErr("stored value isn't a 64 bit integer")]

(***************************************************************************)
(* list_ops.rs                                                             *)
(***************************************************************************)
RECURSIVE Reverse(_)
Reverse(s) == IF s = <<>> THEN <<>> ELSE Append(Reverse(Tail(s)), Head(s))

\* entry(key).or_insert(v): the map with the key present
or_insert(h, key, v) == IF contains_key(h, key) THEN h ELSE insert(h, key, v)

append(h, key, values) ==
    LET h1 == or_insert(h, key, List(<<>>))
    IN  IF h1[key].t = "List"
        THEN [hmap |-> insert(h1, key, List(h1[key].items \o values)),
              res |-> ResOk(Len(values))]
        ELSE [hmap |-> h1, res |-> ResErr("cannot LPUSH to a value that is not a LIST")]

\* a variant of prepend that puts the values in front in the order given
prepend_in_order(h, key, values) ==
    IF contains_key(h, key) /\ h[key].t # "List"
    THEN [hmap |-> h, res |-> ResErr("cannot RPUSH to a value that is not a LIST")]
    ELSE [hmap |-> insert(h, key, List(values \o (IF contains_key(h, key)
                                                  THEN h[key].items ELSE <<>>))),
          res |-> ResOk(Len(values))]

prepend(h, key, values) ==
    LET h1 == or_insert(h, key, List(<<>>))
    IN  IF h1[key].t = "List"
        THEN [hmap |-> insert(h1, key, List(Reverse(values) \o h1[key].items)),
              res |-> ResOk(Len(values))]
        ELSE [hmap |-> h1, res |-> ResErr("cannot RPUSH to a value that is not a LIST")]

Popped_None == [p |-> "None"]
Popped_Multiple(vs) == [p |-> "Multiple", values |-> vs]
Popped_Single(b) == [p |-> "Single", bytes |-> b]

popped(n, to_ret) ==
    IF n.some THEN Popped_Multiple(to_ret)
    ELSE IF to_ret # <<>> THEN Popped_Single(to_ret[1])
    ELSE Popped_None

pop_front(h, key, n) ==
    LET g == get(h, key)
    IN  CASE ~g.some -> [hmap |-> h, res |-> ResOk(Popped_None)]
          [] g.some /\ g.v.t = "List" ->
                LET ll == g.v.items
                    times == Min(IF n.some THEN n.v ELSE 1, Len(ll))
                    to_ret == Take(ll, times)
                IN  [hmap |-> insert(h, key, List(Drop(ll, times))),
                     res |-> ResOk(popped(n, to_ret))]
          [] OTHER -> [hmap |-> h,
                       res |-> ResErr("cannot LPOP from a value that is not a LIST")]

\* a variant of pop_back that takes the elements from the head
pop_back_from_head(h, key, n) == pop_front(h, key, n)

pop_back(h, key, n) ==
    LET g == get(h, key)
    IN  CASE ~g.some -> [hmap |-> h, res |-> ResOk(Popped_None)]
          [] g.some /\ g.v.t = "List" ->
                LET ll == g.v.items
                    times == Min(IF n.some THEN n.v ELSE 1, Len(ll))
                    to_ret == Reverse(Drop(ll, Len(ll) - times))
                IN  [hmap |-> insert(h, key, List(Take(ll, Len(ll) - times))),
                     res |-> ResOk(popped(n, to_ret))]
          [] OTHER -> [hmap |-> h,
                       res |-> ResErr("cannot LPOP from a value that is not a LIST")]

(***************************************************************************)
(* dict_ops.rs                                                             *)
(***************************************************************************)
dict_get(h, key, field) ==
    LET g == get(h, key)
    IN  CASE ~g.some -> ResOk(None)
          [] g.some /\ g.v.t = "Dict" -> ResOk(get(g.v.map, field))
          [] OTHER -> ResErr("stored value isn't a dict")

\* the pairs of fields_and_values.chunks(2), inserted in order; a last chunk
\* of one element stops the loop with a panic at chunk[1]
RECURSIVE insert_chunks(_, _)
insert_chunks(dict, fv) ==
    IF fv = <<>> THEN [map |-> dict, panic |-> FALSE]
    ELSE IF Len(fv) = 1 THEN [map |-> dict, panic |-> TRUE]
    ELSE insert_chunks(insert(dict, fv[1], fv[2]), Drop(fv, 2))

dict_mset(h, key, fields_and_values) ==
    LET h1 == or_insert(h, key, Dict(EmptyMap))
    IN  IF h1[key].t = "Dict"
        THEN LET c == insert_chunks(h1[key].map, fields_and_values)
             IN  [hmap |-> insert(h1, key, Dict(c.map)), res |-> ResOk(TRUE),
                  panic |-> c.panic]
        ELSE [hmap |-> h1, res |-> ResErr("stored value isn't a dict"), panic |-> FALSE]

\* HashMap / HashSet iteration: every element once, in an order the program
\* does not control; the order here is an arbitrary fixed one
RECURSIVE iter(_)
iter(s) ==
    IF s = {} THEN <<>>
    ELSE With(CHOOSE x \in s : TRUE, LAMBDA x : <<x>> \o iter(s \ {x}))

\* fields.iter().filter_map(|f| dict.get(f)): the values of the fields that
\* exist, in request order; the fields that do not exist leave no trace
filter_map_get(dict, fields) ==
    [j \in 1..Len(SelectSeq(fields, LAMBDA f : contains_key(dict, f))) |->
        dict[SelectSeq(fields, LAMBDA f : contains_key(dict, f))[j]]]

\* Ok(Some((values, len))) with len the number of fields of the hash
dict_mget(h, key, fields) ==
    LET g == get(h, key)
    IN  CASE ~g.some -> ResOk(None)
          [] g.some /\ g.v.t = "Dict" ->
                ResOk(Some([values |-> filter_map_get(g.v.map, fields),
                            len |-> Cardinality(DOMAIN g.v.map)]))
          [] OTHER -> ResErr("stored value isn't a dict")

\* dict.iter().flat_map(|(k, v)| [k, v])
RECURSIVE flat_map_kv(_, _)
flat_map_kv(dict, ks) ==
    IF ks = <<>> THEN <<>>
    ELSE <<Head(ks), dict[Head(ks)]>> \o flat_map_kv(dict, Tail(ks))

dict_get_all(h, key) ==
    LET g == get(h, key)
    IN  CASE ~g.some -> ResOk(None)
          [] g.some /\ g.v.t = "Dict" ->
                ResOk(Some([values |-> flat_map_kv(g.v.map, iter(DOMAIN g.v.map)),
                            len |-> Cardinality(DOMAIN g.v.map)]))
          [] OTHER -> ResErr("stored value isn't a dict")

dict_exists(h, key, field) ==
    LET g == get(h, key)
    IN  CASE ~g.some -> ResOk(FALSE)
          [] g.some /\ g.v.t = "Dict" -> ResOk(contains_key(g.v.map, field))
          [] OTHER -> ResErr("stored value isn't a dict")

dict_keys(h, key) ==
    LET g == get(h, key)
    IN  CASE ~g.some -> ResOk(None)
          [] g.some /\ g.v.t = "Dict" ->
                ResOk(Some([values |-> iter(DOMAIN g.v.map),
                            len |-> Cardinality(DOMAIN g.v.map)]))
          [] OTHER -> ResErr("stored value isn't a dict")

\* [hmap, res, panic]: the field is read as an i64 (0 when missing), the sum
\* is written back as text.  The key is created as an empty dict first.
dict_incr_by(h, key, field, by, overflow_checks) ==
    LET h1 == or_insert(h, key, Dict(EmptyMap))
    IN  IF h1[key].t # "Dict"
        THEN [hmap |-> h1, panic |-> FALSE, res |-> ResErr("stored value isn't a dict")]
        ELSE LET f == get(h1[key].map, field)
                 current == IF f.some THEN from_str_signed(f.v) ELSE Some(0)
             IN  IF ~current.some
                 THEN [hmap |-> h1, panic |-> FALSE,
                       res |-> ResErr("hash value is not an integer")]
                 ELSE IF overflows(current.v, by) /\ overflow_checks
                 THEN [hmap |-> h1, panic |-> TRUE, res |-> ResOk(None)]
                 ELSE LET new_value == to_string(wrapping_add(current.v, by))
                      IN  [hmap |-> insert(h1, key,
                                           Dict(insert(h1[key].map, field, new_value))),
                           panic |-> FALSE, res |-> ResOk(new_value)]

(***************************************************************************)
(* set_ops.rs                                                              *)
(***************************************************************************)
\* set.insert(member) for each member in turn, counting the new ones
\* a variant of insert_members that counts every member given
RECURSIVE insert_members_count_all(_, _, _)
insert_members_count_all(set, members, added) ==
    IF members = <<>> THEN [set |-> set, added |-> added]
    ELSE insert_members_count_all(set \cup {Head(members)}, Tail(members), added + 1)

RECURSIVE insert_members(_, _, _)
insert_members(set, members, added) ==
    IF members = <<>> THEN [set |-> set, added |-> added]
    ELSE insert_members(set \cup {Head(members)}, Tail(members),
                        IF Head(members) \in set THEN added ELSE added + 1)

set_add(h, key, members) ==
    LET h1 == or_insert(h, key, Set({}))
    IN  IF h1[key].t = "Set"
        THEN LET a == insert_members(h1[key].members, members, 0)
             IN  [hmap |-> insert(h1, key, Set(a.set)), res |-> ResOk(a.added)]
        ELSE [hmap |-> h1, res |-> ResErr("stored value isn't a set")]

set_is_member(h, key, member) ==
    LET g == get(h, key)
    IN  CASE ~g.some -> ResOk(FALSE)
          [] g.some /\ g.v.t = "Set" -> ResOk(member \in g.v.members)
          [] OTHER -> ResErr("stored value isn't a set")

\* Ok((result.into_iter().collect(), len))
collected(result) == ResOk([values |-> iter(result), len |-> Cardinality(result)])

\* the loop of set_inter over the keys after the first: a missing key returns
\* the empty result at once, a value of another type is an error
RECURSIVE inter_loop(_, _, _)
inter_loop(h, keys, result) ==
    IF keys = <<>> THEN collected(result)
    ELSE CASE ~contains_key(h, Head(keys)) -> collected({})
           [] contains_key(h, Head(keys)) /\ h[Head(keys)].t = "Set" ->
                 inter_loop(h, Tail(keys), result \cap h[Head(keys)].members)
           [] OTHER -> ResErr("stored value isn't a set")

\* a variant of the loop of set_inter that skips a missing key
RECURSIVE inter_loop_skip(_, _, _)
inter_loop_skip(h, keys, result) ==
    IF keys = <<>> THEN collected(result)
    ELSE CASE ~contains_key(h, Head(keys)) -> inter_loop_skip(h, Tail(keys), result)
           [] contains_key(h, Head(keys)) /\ h[Head(keys)].t = "Set" ->
                 inter_loop_skip(h, Tail(keys), result \cap h[Head(keys)].members)
           [] OTHER -> ResErr("stored value isn't a set")

set_inter_skip(h, keys) ==
    CASE keys = <<>> -> collected({})
      [] keys # <<>> /\ ~contains_key(h, Head(keys)) -> collected({})
      [] keys # <<>> /\ contains_key(h, Head(keys)) /\ h[Head(keys)].t = "Set" ->
            inter_loop_skip(h, Tail(keys), h[Head(keys)].members)
      [] OTHER -> ResErr("stored value isn't a set")

set_inter(h, keys) ==
    CASE keys = <<>> -> collected({})
      [] keys # <<>> /\ ~contains_key(h, Head(keys)) -> collected({})
      [] keys # <<>> /\ contains_key(h, Head(keys)) /\ h[Head(keys)].t = "Set" ->
            inter_loop(h, Tail(keys), h[Head(keys)].members)
      [] OTHER -> ResErr("stored value isn't a set")

RECURSIVE union_loop(_, _, _)
union_loop(h, keys, result) ==
    IF keys = <<>> THEN collected(result)
    ELSE CASE ~contains_key(h, Head(keys)) -> union_loop(h, Tail(keys), result)
           [] contains_key(h, Head(keys)) /\ h[Head(keys)].t = "Set" ->
                 union_loop(h, Tail(keys), result \cup h[Head(keys)].members)
           [] OTHER -> ResErr("stored value isn't a set")

set_union(h, keys) == union_loop(h, keys, {})

RECURSIVE diff_loop(_, _, _)
diff_loop(h, keys, result) ==
    IF keys = <<>> THEN collected(result)
    ELSE CASE ~contains_key(h, Head(keys)) -> diff_loop(h, Tail(keys), result)
           [] contains_key(h, Head(keys)) /\ h[Head(keys)].t = "Set" ->
                 diff_loop(h, Tail(keys), result \ h[Head(keys)].members)
           [] OTHER -> ResErr("stored value isn't a set")

set_diff(h, keys) ==
    CASE keys = <<>> -> collected({})
      [] keys # <<>> /\ ~contains_key(h, Head(keys)) -> collected({})
      [] keys # <<>> /\ contains_key(h, Head(keys)) /\ h[Head(keys)].t = "Set" ->
            diff_loop(h, Tail(keys), h[Head(keys)].members)
      [] OTHER -> ResErr("stored value isn't a set")

set_card(h, key) ==
    LET g == get(h, key)
    IN  CASE ~g.some -> ResOk(None)
          [] g.some /\ g.v.t = "Set" -> ResOk(Some(Cardinality(g.v.members)))
          [] OTHER -> ResErr("stored value isn't a set")

set_members(h, key) ==
    LET g == get(h, key)
    IN  CASE ~g.some -> ResOk(None)
          [] g.some /\ g.v.t = "Set" ->
                ResOk(Some([values |-> iter(g.v.members),
                            len |-> Cardinality(g.v.members)]))
          [] OTHER -> ResErr("stored value isn't a set")

(***************************************************************************)
(* sorted_set_ops.rs.  `tree` is the ordered set of (score, member) pairs, *)
(* `scores` the map from member to score.  The pairs are ordered by score  *)
(* and then by the bytes of the member.                                    *)
(***************************************************************************)
\* the u8 value of a byte, for the bytes members are made of
u8(c) ==
    CASE c \in Digits -> 48 + DigitVal(c)
      [] \E n \in 1..26 : Upper[n] = c -> 64 + (CHOOSE n \in 1..26 : Upper[n] = c)
      [] \E n \in 1..26 : Lower[n] = c -> 96 + (CHOOSE n \in 1..26 : Lower[n] = c)

\* Ord for [u8]: lexicographic, a proper prefix comes first
RECURSIVE bytes_lt(_, _)
bytes_lt(a, b) ==
    IF b = <<>> THEN FALSE
    ELSE IF a = <<>> THEN TRUE
    ELSE IF a[1] = b[1] THEN bytes_lt(Tail(a), Tail(b))
    ELSE u8(a[1]) < u8(b[1])

\* Ord for (i64, Bytes)
pair_lt(p, q) == p[1] < q[1] \/ (p[1] = q[1] /\ bytes_lt(p[2], q[2]))

\* tree.iter(): the pairs in ascending order
RECURSIVE tree_iter(_)
tree_iter(tree) ==
    IF tree = {} THEN <<>>
    ELSE With(CHOOSE p \in tree : \A q \in tree \ {p} : pair_lt(p, q),
              LAMBDA p : <<p>> \o tree_iter(tree \ {p}))

\* a variant of add_members that leaves the pair of the old score in the tree
RECURSIVE add_members_keep_old(_, _, _, _)
add_members_keep_old(tree, scores, members, added) ==
    IF members = <<>> THEN [tree |-> tree, scores |-> scores, added |-> added]
    ELSE With(Head(members), LAMBDA sm :
             add_members_keep_old(tree \cup {sm}, insert(scores, sm[2], sm[1]),
                                  Tail(members),
                                  IF contains_key(scores, sm[2]) THEN added ELSE added + 1))

\* a variant of add_members that counts every member given
RECURSIVE add_members_count_all(_, _, _, _)
add_members_count_all(tree, scores, members, added) ==
    IF members = <<>> THEN [tree |-> tree, scores |-> scores, added |-> added]
    ELSE With(Head(members), LAMBDA sm :
             add_members_count_all(
                 (IF contains_key(scores, sm[2])
                  THEN tree \ {<<scores[sm[2]], sm[2]>>} ELSE tree) \cup {sm},
                 insert(scores, sm[2], sm[1]), Tail(members), added + 1))

\* the loop of zset_add over the (score, member) pairs: a member that has a
\* score loses its old pair and is not counted
RECURSIVE add_members(_, _, _, _)
add_members(tree, scores, members, added) ==
    IF members = <<>> THEN [tree |-> tree, scores |-> scores, added |-> added]
    ELSE With(Head(members), LAMBDA sm :
             add_members(
                 (IF contains_key(scores, sm[2])
                  THEN tree \ {<<scores[sm[2]], sm[2]>>} ELSE tree) \cup {sm},
                 insert(scores, sm[2], sm[1]), Tail(members),
                 IF contains_key(scores, sm[2]) THEN added ELSE added + 1))

zset_add(h, key, members) ==
    LET h1 == or_insert(h, key, SortedSet({}, EmptyMap))
    IN  IF h1[key].t = "SortedSet"
        THEN LET a == add_members(h1[key].tree, h1[key].scores, members, 0)
             IN  [hmap |-> insert(h1, key, SortedSet(a.tree, a.scores)),
                  res |-> ResOk(a.added)]
        ELSE [hmap |-> h1, res |-> ResErr("stored value isn't a sorted set")]

\* negative indices count from the end; both ends are clamped into the set
normalize_range(len, start, stop) ==
    IF len = 0 THEN None
    ELSE LET real_start == IF start < 0
                           THEN (IF len + start > 0 THEN len + start ELSE 0)
                           ELSE Min(start, len - 1)
             real_stop == IF stop < 0
                          THEN (IF len + stop > 0 THEN len + stop ELSE 0)
                          ELSE Min(stop, len - 1)
         IN  IF real_start > real_stop THEN None ELSE Some(<<real_start, real_stop>>)

RECURSIVE collect_loop(_, _)
collect_loop(it, withscores) ==
    IF it = <<>> THEN <<>>
    ELSE (IF withscores THEN <<Head(it)[2], to_string(Head(it)[1])>> ELSE <<Head(it)[2]>>)
         \o collect_loop(Tail(it), withscores)

collect_with_scores(it, withscores) ==
    With(collect_loop(it, withscores), LAMBDA result :
        [values |-> result, len |-> Len(result)])

\* what zset_range and zset_revrange do with the pairs in the order `it`
ranged(it, start, stop, withscores) ==
    With(normalize_range(Len(it), start, stop), LAMBDA n :
        IF ~n.some THEN ResOk(Some([values |-> <<>>, len |-> 0]))
        ELSE ResOk(Some(collect_with_scores(
                 Take(Drop(it, n.v[1]), n.v[2] - n.v[1] + 1), withscores))))

zset_range(h, key, start, stop, withscores) ==
    LET g == get(h, key)
    IN  CASE ~g.some -> ResOk(None)
          [] g.some /\ g.v.t = "SortedSet" ->
                ranged(tree_iter(g.v.tree), start, stop, withscores)
          [] OTHER -> ResErr("stored value isn't a sorted set")

\* a variant of zset_revrange that walks the tree forwards
zset_revrange_forward(h, key, start, stop, withscores) ==
    zset_range(h, key, start, stop, withscores)

zset_revrange(h, key, start, stop, withscores) ==
    LET g == get(h, key)
    IN  CASE ~g.some -> ResOk(None)
          [] g.some /\ g.v.t = "SortedSet" ->
                ranged(Reverse(tree_iter(g.v.tree)), start, stop, withscores)
          [] OTHER -> ResErr("stored value isn't a sorted set")

zset_score(h, key, member) ==
    LET g == get(h, key)
    IN  CASE ~g.some -> ResOk(None)
          [] g.some /\ g.v.t = "SortedSet" -> ResOk(get(g.v.scores, member))
          [] OTHER -> ResErr("stored value isn't a sorted set")

\* a variant of zset_rank that finds only the member that comes first
zset_rank_first_only(h, key, member) ==
    LET g == get(h, key)
    IN  CASE ~g.some -> ResOk(None)
          [] g.some /\ g.v.t = "SortedSet" ->
                IF contains_key(g.v.scores, member)
                   /\ \A p \in g.v.tree : ~pair_lt(p, <<g.v.scores[member], member>>)
                THEN ResOk(Some(0)) ELSE ResOk(None)
          [] OTHER -> ResErr("stored value isn't a sorted set")

\* tree.range(..&target).count(): the pairs that come before the member's
zset_rank(h, key, member) ==
    LET g == get(h, key)
    IN  CASE ~g.some -> ResOk(None)
          [] g.some /\ g.v.t = "SortedSet" ->
                IF ~contains_key(g.v.scores, member) THEN ResOk(None)
                ELSE ResOk(Some(Cardinality(
                         {p \in g.v.tree : pair_lt(p, <<g.v.scores[member], member>>)})))
          [] OTHER -> ResErr("stored value isn't a sorted set")

zset_revrank(h, key, member) ==
    LET g == get(h, key)
    IN  CASE ~g.some -> ResOk(None)
          [] g.some /\ g.v.t = "SortedSet" ->
                IF ~contains_key(g.v.scores, member) THEN ResOk(None)
                ELSE ResOk(Some(Cardinality(g.v.tree) - 1 - Cardinality(
                         {p \in g.v.tree : pair_lt(p, <<g.v.scores[member], member>>)})))
          [] OTHER -> ResErr("stored value isn't a sorted set")

\* zcard is called by main and defined in none of the source files: it is
\* the number of members of the sorted set, None for a missing key
zcard(h, key) ==
    LET g == get(h, key)
    IN  CASE ~g.some -> ResOk(None)
          [] g.some /\ g.v.t = "SortedSet" -> ResOk(Some(Cardinality(DOMAIN g.v.scores)))
          [] OTHER -> ResErr("stored value isn't a sorted set")

\* [hmap, res, panic]: a member without a score counts as 0; the key is
\* created as an empty sorted set first
zset_incr_by(h, key, incr, member, overflow_checks) ==
    LET h1 == or_insert(h, key, SortedSet({}, EmptyMap))
    IN  IF h1[key].t # "SortedSet"
        THEN [hmap |-> h1, panic |-> FALSE,
              res |-> ResErr("stored value isn't a sorted set")]
        ELSE LET tree == h1[key].tree
                 scores == h1[key].scores
                 old_score == IF contains_key(scores, member) THEN scores[member] ELSE 0
                 new_score == wrapping_add(old_score, incr)
             IN  IF overflows(old_score, incr) /\ overflow_checks
                 THEN [hmap |-> h1, panic |-> TRUE, res |-> ResOk(0)]
                 ELSE [hmap |-> insert(h1, key, SortedSet(
                                    (IF contains_key(scores, member)
                                     THEN tree \ {<<old_score, member>>} ELSE tree)
                                        \cup {<<new_score, member>>},
                                    insert(scores, member, new_score))),
                       panic |-> FALSE, res |-> ResOk(new_score)]

(***************************************************************************)
(* The arms of `match cmd` in main (main.rs:146-646).  Each yields the     *)
(* keyspace it leaves, the reply it writes and the histogram it names; an  *)
(* arm that panics leaves `panic` set and writes nothing.                  *)
(***************************************************************************)
Done(h, reply, current_command) ==
    [hmap |-> h, reply |-> reply, current_command |-> current_command, panic |-> FALSE]
Unwind(h) ==
    [hmap |-> h, reply |-> key_not_found, current_command |-> "", panic |-> TRUE]

reply_or_wrong_type(res, reply) == IF res.ok THEN reply ELSE wrong_type(res.message)

exec_Get(h, c) ==
    LET g == get(h, c.key)
    IN  Done(h,
             CASE ~g.some -> key_not_found
               [] g.some /\ g.v.t = "Plain" -> write_bulk_string(g.v.bytes)
               [] OTHER -> wrong_type("expected STRING"),
             "get")

exec_Set(h, c, t_now) ==
    Done(insert_alloc(h, c.key, c.value,
                      IF c.ttl.some THEN Some(t_now + c.ttl.v) ELSE None),
         ok, "set")

exec_SetNx(h, c) == Done(set_if_not_exist(h, c.key, c.value), ok, "set")

exec_SetXx(h, c) == Done(update_if_exist(h, c.key, c.value), ok, "set")

\* a variant of the SetAndGet arm that never finds a prior value
exec_SetAndGet_null(h, c) ==
    Done(insert(h, c.key, Plain(c.value)), key_not_found, "set")

\* the insert comes first; the match is on the value it replaced
exec_SetAndGet(h, c) ==
    LET old == get(h, c.key)
    IN  Done(insert_alloc(h, c.key, c.value, None),
             CASE ~old.some -> key_not_found
               [] old.some /\ old.v.t \in {"Plain", "TtlPlain"} ->
                      write_bulk_string(old.v.bytes)
               [] OTHER -> wrong_type("expected STRING"),
             "set")

\* `*bytes = Bytes::copy_from_slice(bytes)` copies the stored bytes onto themselves
exec_SetKeepTtl(h, c) ==
    LET g == get(h, c.key)
    IN  CASE ~g.some -> Done(insert_alloc(h, c.key, c.value, None), ok, "set")
          [] g.some /\ g.v.t \in {"Plain", "TtlPlain"} ->
                Done(h, write_bulk_string(g.v.bytes), "set")
          [] OTHER -> Done(h, wrong_type("expected STRING"), "set")

exec_Lpush(h, c) ==
    LET r == prepend(h, c.key, c.values)
    IN  Done(r.hmap, reply_or_wrong_type(r.res, write_integer(to_string(r.res.v))), "lpush")

exec_Rpush(h, c) ==
    LET r == append(h, c.key, c.values)
    IN  Done(r.hmap, reply_or_wrong_type(r.res, write_integer(to_string(r.res.v))), "rpush")

popped_reply(res) ==
    CASE ~res.ok -> wrong_type(res.message)
      [] res.ok /\ res.v.p = "None" -> key_not_found
      [] res.ok /\ res.v.p = "Single" -> write_bulk_string(res.v.bytes)
      [] res.ok /\ res.v.p = "Multiple" -> write_array(res.v.values, Len(res.v.values))

exec_Lpop(h, c) ==
    LET r == pop_front(h, c.key, c.count) IN Done(r.hmap, popped_reply(r.res), "lpop")

exec_Rpop(h, c) ==
    LET r == pop_back(h, c.key, c.count) IN Done(r.hmap, popped_reply(r.res), "rpop")

\* `count` is the unit value delete_all returns (main.rs:276-277)
exec_Del(h, c) ==
    LET r == delete_all(h, c.keys) IN Done(r.hmap, write_integer(r.ret), "del")

exec_HincrBy(h, c, overflow_checks) ==
    LET r == dict_incr_by(h, c.key, c.field, c.incr_by, overflow_checks)
    IN  IF r.panic THEN Unwind(r.hmap)
        ELSE Done(r.hmap, reply_or_wrong_type(r.res, write_integer(r.res.v)), "hincrby")

incr_reply(res) ==
    CASE ~res.ok -> wrong_type(res.message)
      [] res.ok /\ ~res.v.some -> key_not_found
      [] OTHER -> write_integer(res.v.v)

exec_Incr(h, c, overflow_checks) ==
    LET r == incr_by(h, c.key, 1, overflow_checks)
    IN  IF r.panic THEN Unwind(r.hmap) ELSE Done(r.hmap, incr_reply(r.res), "incr")

exec_IncrBy(h, c, overflow_checks) ==
    LET r == incr_by(h, c.key, c.incr_by, overflow_checks)
    IN  IF r.panic THEN Unwind(r.hmap) ELSE Done(r.hmap, incr_reply(r.res), "incr")

exec_Ttl(h, c, t_now) ==
    LET r == get_ttl(h, c.key, t_now)
    IN  Done(h,
             CASE ~r.ok -> wrong_type(r.message)
               [] r.ok /\ ~r.v.some -> key_not_found
               [] OTHER -> write_integer(to_string(as_secs(r.v.v))),
             "ttl")

take_n(s, n) == SubSeq(s, 1, Min(n, Len(s)))

exec_Lrange(h, c) ==
    LET g == get(h, c.key)
    IN  CASE ~g.some -> Done(h, key_not_found, "lrange")
          [] g.some /\ g.v.t = "List" ->
                LET ll == g.v.items
                    start == IF c.start < 0 THEN Len(ll) - c.start ELSE c.start
                    end == IF c.end < 0 THEN Len(ll) - c.end ELSE c.end
                    vec == IF start <= end
                           THEN take_n(Drop(ll, start), end + 1)
                           ELSE Reverse(take_n(Drop(ll, end), start + 1))
                IN  Done(h, write_array(vec, Len(vec)), "lrange")
          [] OTHER -> Done(h, wrong_type("stored value isn't a list"), "lrange")

exec_LLen(h, c) ==
    LET g == get(h, c.key)
    IN  Done(h,
             CASE ~g.some -> key_not_found
               [] g.some /\ g.v.t = "List" -> write_integer(to_string(Len(g.v.items)))
               [] OTHER -> wrong_type("stored value isn't a list"),
             "llen")

exec_Hget(h, c) ==
    LET r == dict_get(h, c.key, c.field)
    IN  Done(h,
             CASE ~r.ok -> wrong_type(r.message)
               [] r.ok /\ ~r.v.some -> key_not_found
               [] OTHER -> write_bulk_string(r.v.v),
             "hget")

exec_HMset(h, c) ==
    LET r == dict_mset(h, c.key, c.fields_and_values)
    IN  IF r.panic THEN Unwind(r.hmap)
        ELSE Done(r.hmap, reply_or_wrong_type(r.res, ok), "hmset")

\* Err => wrong_type, Ok(None) => key_not_found, Ok(Some((values, len))) =>
\* write_array(values, len)
array_reply(r) ==
    CASE ~r.ok -> wrong_type(r.message)
      [] r.ok /\ ~r.v.some -> key_not_found
      [] OTHER -> write_array(r.v.v.values, r.v.v.len)

exec_HMget(h, c) == Done(h, array_reply(dict_mget(h, c.key, c.fields)), "hmget")

\* the arm names the histogram of HMSET
exec_HgetAll(h, c) == Done(h, array_reply(dict_get_all(h, c.key)), "hmset")

exec_Hexists(h, c) ==
    LET r == dict_exists(h, c.key, c.field)
    IN  Done(h, reply_or_wrong_type(r, write_integer(to_string(IF r.v THEN 1 ELSE 0))),
             "hexists")

exec_Hkeys(h, c) == Done(h, array_reply(dict_keys(h, c.key)), "hkeys")

\* Err => wrong_type, Ok((values, len)) => write_array(values, len)
vec_reply(r) == IF r.ok THEN write_array(r.v.values, r.v.len) ELSE wrong_type(r.message)

exec_Sinter(h, c) == Done(h, vec_reply(set_inter(h, c.keys)), "sinter")
exec_Sunion(h, c) == Done(h, vec_reply(set_union(h, c.keys)), "sunion")
exec_Sdiff(h, c) == Done(h, vec_reply(set_diff(h, c.keys)), "sdiff")

exec_Scard(h, c) ==
    LET r == set_card(h, c.key)
    IN  Done(h,
             CASE ~r.ok -> wrong_type(r.message)
               [] r.ok /\ ~r.v.some -> key_not_found
               [] OTHER -> write_integer(to_string(r.v.v)),
             "scard")

exec_Smembers(h, c) == Done(h, array_reply(set_members(h, c.key)), "smembers")

exec_Zadd(h, c) ==
    LET r == zset_add(h, c.key, c.members)
    IN  Done(r.hmap, reply_or_wrong_type(r.res, write_integer(to_string(r.res.v))), "zadd")

exec_Zrange(h, c) ==
    Done(h, array_reply(zset_range(h, c.key, c.start, c.stop, c.withscores)), "zrange")

exec_Zrevrange(h, c) ==
    Done(h, array_reply(zset_revrange(h, c.key, c.start, c.stop, c.withscores)),
         "zrevrange")

exec_Zscore(h, c) ==
    LET r == zset_score(h, c.key, c.member)
    IN  Done(h,
             CASE ~r.ok -> wrong_type(r.message)
               [] r.ok /\ ~r.v.some -> key_not_found
               [] OTHER -> write_bulk_string(to_string(r.v.v)),
             "zscore")

\* Err => wrong_type, Ok(None) => key_not_found, Ok(Some(n)) => write_integer(n)
count_reply(r) ==
    CASE ~r.ok -> wrong_type(r.message)
      [] r.ok /\ ~r.v.some -> key_not_found
      [] OTHER -> write_integer(to_string(r.v.v))

exec_Zrank(h, c) == Done(h, count_reply(zset_rank(h, c.key, c.member)), "zrank")
exec_Zrevrank(h, c) == Done(h, count_reply(zset_revrank(h, c.key, c.member)), "zrevrank")
exec_Zcard(h, c) == Done(h, count_reply(zcard(h, c.key)), "zcard")

exec_Zincrby(h, c, overflow_checks) ==
    LET r == zset_incr_by(h, c.key, c.incr, c.member, overflow_checks)
    IN  IF r.panic THEN Unwind(r.hmap)
        ELSE Done(r.hmap, reply_or_wrong_type(r.res, write_bulk_string(to_string(r.res.v))),
                  "zincrby")

exec_Exists(h, c) ==
    Done(h, write_integer(to_string(IF contains_key(h, c.key) THEN 1 ELSE 0)), "exists")

exec_Sadd(h, c) ==
    LET r == set_add(h, c.key, c.values)
    IN  Done(r.hmap, reply_or_wrong_type(r.res, write_integer(to_string(r.res.v))), "sadd")

exec_Sismember(h, c) ==
    LET r == set_is_member(h, c.key, c.member)
    IN  Done(h, reply_or_wrong_type(r, write_integer(to_string(IF r.v THEN 1 ELSE 0))),
             "sismember")

Exec(h, c, t_now, overflow_checks) ==
    CASE c.op = "Get"        -> exec_Get(h, c)
      [] c.op = "Set"        -> exec_Set(h, c, t_now)
      [] c.op = "SetNx"      -> exec_SetNx(h, c)
      [] c.op = "SetXx"      -> exec_SetXx(h, c)
      [] c.op = "SetAndGet"  -> exec_SetAndGet(h, c)
      [] c.op = "SetKeepTtl" -> exec_SetKeepTtl(h, c)
      [] c.op = "Ping"       -> Done(h, pong, "ping")
      [] c.op = "FlushDb"    -> Done(h, ok, "flushdb")
      [] c.op = "Docs"       -> Done(h, write_array(<<>>, 0), "docs")
      [] c.op = "DbSize"     -> Done(h, write_integer(to_string(Cardinality(DOMAIN h))), "dbsize")
      [] c.op = "Config"     -> Done(h, write_array(<<>>, 0), "config")
      [] c.op = "Lpush"      -> exec_Lpush(h, c)
      [] c.op = "Rpush"      -> exec_Rpush(h, c)
      [] c.op = "LpushX"     -> Unwind(h)
      [] c.op = "RpushX"     -> Unwind(h)
      [] c.op = "Lpop"       -> exec_Lpop(h, c)
      [] c.op = "Rpop"       -> exec_Rpop(h, c)
      [] c.op = "Del"        -> exec_Del(h, c)
      [] c.op = "Incr"       -> exec_Incr(h, c, overflow_checks)
      [] c.op = "IncrBy"     -> exec_IncrBy(h, c, overflow_checks)
      [] c.op = "ClientSetInfo" -> Done(h, ok, "client")
      [] c.op = "Ttl"        -> exec_Ttl(h, c, t_now)
      [] c.op = "Lrange"     -> exec_Lrange(h, c)
      [] c.op = "LLen"       -> exec_LLen(h, c)
      [] c.op = "Hget"       -> exec_Hget(h, c)
      [] c.op = "HMset"      -> exec_HMset(h, c)
      [] c.op = "HMget"      -> exec_HMget(h, c)
      [] c.op = "HgetAll"    -> exec_HgetAll(h, c)
      [] c.op = "HincrBy"    -> exec_HincrBy(h, c, overflow_checks)
      [] c.op = "Hexists"    -> exec_Hexists(h, c)
      [] c.op = "Hkeys"      -> exec_Hkeys(h, c)
      [] c.op = "Exists"     -> exec_Exists(h, c)
      [] c.op = "Sadd"       -> exec_Sadd(h, c)
      [] c.op = "Sismember"  -> exec_Sismember(h, c)
      [] c.op = "Sinter"     -> exec_Sinter(h, c)
      [] c.op = "Sunion"     -> exec_Sunion(h, c)
      [] c.op = "Sdiff"      -> exec_Sdiff(h, c)
      [] c.op = "Scard"      -> exec_Scard(h, c)
      [] c.op = "Smembers"   -> exec_Smembers(h, c)
      [] c.op = "Zadd"       -> exec_Zadd(h, c)
      [] c.op = "Zrange"     -> exec_Zrange(h, c)
      [] c.op = "Zrevrange"  -> exec_Zrevrange(h, c)
      [] c.op = "Zscore"     -> exec_Zscore(h, c)
      [] c.op = "Zincrby"    -> exec_Zincrby(h, c, overflow_checks)
      [] c.op = "Zrank"      -> exec_Zrank(h, c)
      [] c.op = "Zrevrank"   -> exec_Zrevrank(h, c)
      [] c.op = "Zcard"      -> exec_Zcard(h, c)

(***************************************************************************)
(* The event loop (main.rs:73-688).                                        *)
(*                                                                         *)
(* net.conn[t] is the socket registered under token t and its peer:        *)
(*   peer   "open", "fin" (the peer shut its side down: read returns 0)    *)
(*          or "rst" (the connection is reset: read and write fail)        *)
(*   inq    bytes received by the kernel and not yet read                  *)
(*   held   bytes the peer has written that have not arrived yet           *)
(*   event  a readiness event for the token is pending                     *)
(*   out    what the server has written, in order; `whole` is FALSE for a  *)
(*          write that failed part-way                                     *)
(*   read   how many bytes of the stream the server has read so far        *)
(*   sent   history: the frames the peer has written, each with the number *)
(*          of replies it had been sent before                             *)
(***************************************************************************)
BufSize == 1024

Client(read_buf) == [read_buf |-> read_buf]

Socket == [peer |-> "open", inq |-> <<>>, held |-> <<>>, event |-> FALSE,
           out |-> <<>>, read |-> 0, sent |-> <<>>]

remove(f, k) == [x \in DOMAIN f \ {k} |-> f[x]]

\* What the reads and parse of the readable branch come to (main.rs:120-145):
\* the loop goes round again only on IncompleteInput.
RECURSIVE readable(_, _, _)
readable(read_buf, inq, peer) ==
    IF inq = <<>>
    THEN [how |-> IF peer = "open" THEN "WouldBlock" ELSE "closed",
          read_buf |-> read_buf, inq |-> inq]
    ELSE With(Min(Len(inq), BufSize), LAMBDA n :
         With(read_buf \o Take(inq, n), LAMBDA rb :
         With(parse(rb), LAMBDA p :
             CASE p.r = "IncompleteInput" -> readable(rb, Drop(inq, n), peer)
               [] p.r = "Ok" -> [how |-> "Ok", read_buf |-> rb, inq |-> Drop(inq, n),
                                 cmd |-> p.cmd, borrowed |-> p.borrowed]
               [] OTHER -> [how |-> p.r, read_buf |-> rb, inq |-> Drop(inq, n)])))

\* A command parsed from inline input keeps slices of a Vec that parse has
\* already dropped (parser.rs:463-467); only a command without operands is
\* free of them.
has_operands(c) == DOMAIN c # {"op"}
dangling(r) == r.borrowed = "freed" /\ has_operands(r.cmd)

\* a variant of the handler whose effect on the keyspace is lost
handler_exec_stale(h, c, t_now, overflow_checks) ==
    [Exec(h, c, t_now, overflow_checks) EXCEPT !.hmap = h]

\* `match cmd` runs on the one keyspace of the process (main.rs:146)
handler_exec(h, c, t_now, overflow_checks) == Exec(h, c, t_now, overflow_checks)

\* a variant in which the executed command stays in the buffer
read_buf_keep(read_buf) == read_buf

\* read_buf after a command was executed and answered (main.rs:647)
read_buf_clear(read_buf) == <<>>

\* latency_histograms.entry(current_command).or_insert(..).increment(..)
increment(hist, name) ==
    [x \in DOMAIN hist \cup {name} |->
        IF x = name THEN (IF x \in DOMAIN hist THEN hist[x] + 1 ELSE 1) ELSE hist[x]]

\* a reply on the wire; `upto` is how far the stream had been read
Written(reply, whole, upto) == [reply |-> reply, whole |-> whole, upto |-> upto]

Sent(frame, sock) == [frame |-> frame, replies |-> Len(sock.out)]

LogEntry(t, c, e, from, upto, answered) ==
    [tok |-> t, cmd |-> c, at |-> now, reply |-> e.reply, panic |-> e.panic,
     from |-> from, upto |-> upto, answered |-> answered]

Last(t, how, c, reply) ==
    [tok |-> t, how |-> how, cmd |-> c, reply |-> reply, before |-> hmap, at |-> now]

NoLast == [tok |-> 0, how |-> "none", cmd |-> None, reply |-> None,
           before |-> EmptyMap, at |-> 0]

Init ==
    /\ hmap = EmptyMap
    /\ clients = EmptyMap
    /\ next_token_id = 1
    /\ latency_histograms = EmptyMap
    /\ status = "running"
    /\ now = 0
    /\ net = [conn |-> EmptyMap, sends |-> 0, splits |-> 0]
    /\ log = <<>>
    /\ last = NoLast

\* The listener is readable: accept until WouldBlock (main.rs:79-103).
Accept(n) ==
    /\ status = "running"
    /\ next_token_id + n - 1 <= MaxClients
    /\ clients' = [t \in DOMAIN clients \cup (next_token_id..(next_token_id + n - 1)) |->
                      IF t \in DOMAIN clients THEN clients[t] ELSE Client(<<>>)]
    /\ net' = [net EXCEPT !.conn =
                  [t \in DOMAIN net.conn \cup (next_token_id..(next_token_id + n - 1)) |->
                      IF t \in DOMAIN net.conn THEN net.conn[t] ELSE Socket]]
    /\ next_token_id' = next_token_id + n
    /\ UNCHANGED <<hmap, latency_histograms, status, now, log, last>>

\* The peer of t writes a frame; the first `cut` bytes arrive now, the rest later.
PeerSend(t, frame, cut) ==
    /\ status = "running"
    /\ t \in DOMAIN net.conn
    /\ net.conn[t].peer = "open"
    /\ net.conn[t].held = <<>>
    /\ net.sends < MaxSends
    /\ cut \in 1..Len(frame)
    /\ cut < Len(frame) => net.splits < MaxSplits
    /\ net' = [net EXCEPT !.sends = @ + 1,
                          !.splits = IF cut < Len(frame) THEN @ + 1 ELSE @,
                          !.conn[t].inq = @ \o Take(frame, cut),
                          !.conn[t].held = Drop(frame, cut),
                          !.conn[t].sent = Append(@, Sent(frame, net.conn[t])),
                          !.conn[t].event = TRUE]
    /\ UNCHANGED <<hmap, clients, next_token_id, latency_histograms, status, now, log, last>>

\* The rest of a frame arrives.
PeerDeliver(t) ==
    /\ status = "running"
    /\ t \in DOMAIN net.conn
    /\ net.conn[t].peer = "open"
    /\ net.conn[t].held # <<>>
    /\ net' = [net EXCEPT !.conn[t].inq = @ \o net.conn[t].held,
                          !.conn[t].held = <<>>,
                          !.conn[t].event = TRUE]
    /\ UNCHANGED <<hmap, clients, next_token_id, latency_histograms, status, now, log, last>>

\* The peer closes (FIN) or the connection is reset (RST, which drops what
\* the kernel had buffered).
PeerClose(t, how) ==
    /\ status = "running"
    /\ t \in DOMAIN net.conn
    /\ net.conn[t].peer = "open"
    /\ how \in {"fin", "rst"}
    /\ net.sends < MaxSends
    /\ net' = [net EXCEPT !.sends = @ + 1,
                          !.conn[t].peer = how,
                          !.conn[t].held = <<>>,
                          !.conn[t].inq = IF how = "rst" THEN <<>> ELSE @,
                          !.conn[t].event = TRUE]
    /\ UNCHANGED <<hmap, clients, next_token_id, latency_histograms, status, now, log, last>>

Tick(d) ==
    /\ status = "running"
    /\ now + d <= MaxNow
    /\ now' = now + d
    /\ UNCHANGED <<hmap, clients, next_token_id, latency_histograms, status, net, log, last>>

\* The parsed command is executed and answered, the buffer is cleared and the
\* latency is recorded (main.rs:146-662).
Served(t, n, c, read_buf, sock, from, upto, reset, overflow_checks) ==
    \E e \in {handler_exec(hmap, c, now, overflow_checks)} :
        /\ hmap' = e.hmap
        /\ e.panic => ~reset
        /\ status' = CASE e.panic -> "panicked"
                       [] reset -> "exited"
                       [] OTHER -> status
        /\ clients' = [clients EXCEPT ![t].read_buf =
                          IF e.panic \/ reset THEN read_buf
                          ELSE read_buf_clear(read_buf)]
        /\ net' = [n EXCEPT !.conn[t] =
                      IF e.panic THEN sock
                      ELSE [sock EXCEPT !.out = Append(@, Written(e.reply, ~reset, upto)),
                                        !.peer = IF reset THEN "rst" ELSE @]]
        /\ latency_histograms' =
               IF e.panic \/ reset THEN latency_histograms
               ELSE increment(latency_histograms, e.current_command)
        /\ log' = Append(log, LogEntry(t, c, e, from, upto, ~e.panic /\ ~reset))
        /\ last' = Last(t, IF e.panic THEN "Panic" ELSE "Ok", Some(c),
                        IF e.panic THEN None ELSE Some(e.reply))

\* The readable branch for token t (main.rs:115-685), run on the sockets n.  `reset` says that
\* the connection is reset while the handler runs, after its read: a write
\* then fails and `?` returns the error from main.
Handle(t, n, reset, overflow_checks) ==
    /\ \E r \in {readable(clients[t].read_buf, n.conn[t].inq, n.conn[t].peer)} :
       LET s == n.conn[t]
           taken == Len(s.inq) - Len(r.inq)
           from == s.read - Len(clients[t].read_buf)
           upto == s.read + taken
           sock == [s EXCEPT !.inq = r.inq, !.event = FALSE, !.read = upto]
       IN  CASE r.how = "WouldBlock" ->
                 /\ ~reset /\ overflow_checks
                 /\ clients' = [clients EXCEPT ![t].read_buf = r.read_buf]
                 /\ net' = [n EXCEPT !.conn[t] = sock]
                 /\ last' = Last(t, "WouldBlock", None, None)
                 /\ UNCHANGED <<hmap, latency_histograms, status, log>>
             [] r.how = "closed" ->
                 /\ ~reset /\ overflow_checks
                 /\ clients' = remove(clients, t)
                 /\ net' = [n EXCEPT !.conn[t] = sock]
                 /\ last' = Last(t, "closed", None, None)
                 /\ UNCHANGED <<hmap, latency_histograms, status, log>>
             [] r.how = "Panic" ->
                 /\ ~reset /\ overflow_checks
                 /\ status' = "panicked"
                 /\ clients' = [clients EXCEPT ![t].read_buf = r.read_buf]
                 /\ net' = [n EXCEPT !.conn[t] = sock]
                 /\ last' = Last(t, "Panic", None, None)
                 /\ UNCHANGED <<hmap, latency_histograms, log>>
             [] r.how = "Parse" ->
                 /\ overflow_checks
                 /\ clients' = [clients EXCEPT ![t].read_buf = r.read_buf]
                 /\ net' = [n EXCEPT !.conn[t] =
                               [sock EXCEPT !.out = Append(@, Written(generic_error("invalid input"), ~reset, upto)),
                                            !.peer = IF reset THEN "rst" ELSE @]]
                 /\ status' = IF reset THEN "exited" ELSE status
                 /\ last' = Last(t, "Parse", None, Some(generic_error("invalid input")))
                 /\ UNCHANGED <<hmap, latency_histograms, log>>
             [] r.how = "Ok" /\ dangling(r) ->
                 /\ ~reset /\ overflow_checks
                 /\ status' = "undefined"
                 /\ clients' = [clients EXCEPT ![t].read_buf = r.read_buf]
                 /\ net' = [n EXCEPT !.conn[t] = sock]
                 /\ last' = Last(t, "undefined", Some(r.cmd), None)
                 /\ UNCHANGED <<hmap, latency_histograms, log>>
             [] r.how = "Ok" /\ ~dangling(r) ->
                 Served(t, n, r.cmd, r.read_buf, sock, from, upto, reset, overflow_checks)
    /\ UNCHANGED <<next_token_id, now>>

\* A readable event for a client token (main.rs:106-685).
HandleEvent(t, reset, overflow_checks) ==
    /\ status = "running"
    /\ t \in DOMAIN clients
    /\ net.conn[t].event
    /\ Handle(t, net, reset, overflow_checks)

\* A client with nothing outstanding writes one RESP frame, it arrives in one
\* segment and the readable branch runs on it.
RequestWithin(t, tokens, overflow_checks, budget) ==
    /\ status = "running"
    /\ t \in DOMAIN clients
    /\ net.conn[t].peer = "open"
    /\ net.conn[t].held = <<>>
    /\ net.conn[t].inq = <<>>
    /\ ~net.conn[t].event
    /\ net.sends < budget
    /\ Handle(t, [net EXCEPT !.sends = @ + 1,
                             !.conn[t].inq = resp_frame(tokens),
                             !.conn[t].sent = Append(@, Sent(resp_frame(tokens), net.conn[t]))],
              FALSE, overflow_checks)

Request(t, tokens, overflow_checks) == RequestWithin(t, tokens, overflow_checks, MaxSends)

\* parse applied to what read_buf holds (main.rs:129)
Parse(t) ==
    /\ status = "running"
    /\ t \in DOMAIN clients
    /\ last = NoLast
    /\ \E p \in {parse(clients[t].read_buf)} :
           last' = Last(t, p.r, IF p.r = "Ok" THEN Some(p.cmd) ELSE None, None)
    /\ UNCHANGED <<hmap, clients, next_token_id, latency_histograms, status, now, net, log>>

(***************************************************************************)
(* Spec: the event loop fed with bytes.  What the peers send:              *)
(***************************************************************************)
Verb(code) == CmdTable[CHOOSE n \in 1..Len(CmdTable) : CmdTable[n][2] = code][1]

K_a == <<"a">>
K_b == <<"b">>
V_v == <<"v">>
V_w == <<"w">>
V_7 == <<"7">>
F_f == <<"f">>

F_SET == resp_frame(<<Verb("Set"), K_a, V_v>>)
F_GET == resp_frame(<<Verb("Get"), K_a>>)
F_RPUSH == resp_frame(<<Verb("Rpush"), K_a, V_w>>)
F_SETGET == resp_frame(<<Verb("Set"), K_a, V_7, B_GET>>)
F_PING_INLINE == <<"P", "I", "N", "G", CR, LF>>
F_UNKNOWN == resp_frame(<<<<"F", "O", "O">>>>)
F_LPUSHX == resp_frame(<<Verb("LpushX"), K_a, V_v>>)
F_INCRBY_NAN == resp_frame(<<Verb("IncrBy"), K_a, <<"x">>>>)
F_INCRBY_BIG == resp_frame(<<Verb("IncrBy"), K_a, <<"9", "9", "9">>>>)
F_HSET_ODD == resp_frame(<<Verb("Hset"), K_a, F_f>>)
F_BAD_LEN == <<"*", "1", CR, LF, "$", "x", CR, LF>>

WellFormed == {F_SET, F_GET, F_PING_INLINE}
WireFrames == WellFormed \cup {F_UNKNOWN, F_LPUSHX}

Next ==
    \/ \E n \in 1..MaxClients : Accept(n)
    \/ \E t \in DOMAIN net.conn : \E f \in WireFrames : \E cut \in 1..Len(f) :
           PeerSend(t, f, cut)
    \/ \E t \in DOMAIN net.conn : PeerDeliver(t)
    \/ \E t \in DOMAIN net.conn : PeerClose(t, "fin")
    \/ \E t \in DOMAIN clients : \E reset \in BOOLEAN : \E oc \in BOOLEAN :
           HandleEvent(t, reset, oc)

Spec == Init /\ [][Next]_vars

(***************************************************************************)
(* SpecStore: whole commands, one per step, and the clock.                 *)
(***************************************************************************)
N_0 == <<"0">>
N_1 == <<"1">>

Requests == {
    <<Verb("Set"), K_a, V_v>>,
    <<Verb("Set"), K_a, V_7>>,
    <<Verb("Set"), K_b, V_w>>,
    <<Verb("Set"), K_a, V_v, B_EX, N_1>>,
    <<Verb("Set"), K_a, V_v, B_PX, <<"2", "0", "0">>>>,
    <<Verb("SetEx"), K_a, N_1, V_w>>,
    <<Verb("Set"), K_a, V_w, B_NX>>,
    <<Verb("Set"), K_a, V_w, B_XX>>,
    <<Verb("Set"), K_a, V_w, B_GET>>,
    <<Verb("Set"), K_a, V_w, B_KEEPTTL>>,
    <<Verb("Get"), K_a>>,
    <<Verb("Ttl"), K_a>>,
    <<Verb("Lpush"), K_a, V_v, V_w>>,
    <<Verb("Rpush"), K_a, V_v>>,
    <<Verb("Lpop"), K_a>>,
    <<Verb("Rpop"), K_a, N_1>>,
    <<Verb("Lrange"), K_a, N_0, N_1>>,
    <<Verb("LLen"), K_a>>,
    <<Verb("Hset"), K_a, F_f, V_v>>,
    <<Verb("Hget"), K_a, F_f>>,
    <<Verb("Sadd"), K_a, V_v>>,
    <<Verb("Sismember"), K_a, V_v>>,
    <<Verb("Incr"), K_a>>,
    <<Verb("IncrBy"), K_a, N_1>>,
    <<Verb("Exists"), K_a>>,
    <<Verb("DbSize")>>,
    <<Verb("FlushDb")>>,
    <<Verb("Ping")>> }

NextStore ==
    \/ \E n \in 1..MaxClients : Accept(n)
    \/ \E t \in DOMAIN clients : \E tokens \in Requests : \E oc \in BOOLEAN :
           Request(t, tokens, oc)
    \/ \E d \in TickSteps : Tick(d)

SpecStore == Init /\ [][NextStore]_vars

(***************************************************************************)
(* SpecKeys: the commands on whole keys (SET and its options, DEL, EXISTS, *)
(* DBSIZE, FLUSHDB), one per step.                                         *)
(***************************************************************************)
KeyRequests == {
    <<Verb("Set"), K_a, V_v>>,
    <<Verb("Set"), K_b, V_w>>,
    <<Verb("Set"), K_a, V_v, B_EX, N_1>>,
    <<Verb("Lpush"), K_a, V_v>>,
    <<Verb("Set"), K_a, V_w, B_NX>>,
    <<Verb("Set"), K_a, V_w, B_XX>>,
    <<Verb("Set"), K_a, V_w, B_GET>>,
    <<Verb("Set"), K_a, V_w, B_KEEPTTL>>,
    <<Verb("Del"), K_a>>,
    <<Verb("Del"), K_a, K_b>>,
    <<Verb("Del"), K_a, K_a>>,
    <<Verb("Get"), K_a>>,
    <<Verb("Exists"), K_a>>,
    <<Verb("DbSize")>>,
    <<Verb("FlushDb")>> }

NextKeys ==
    \/ \E n \in 1..MaxClients : Accept(n)
    \/ \E t \in DOMAIN clients : \E tokens \in KeyRequests : \E oc \in BOOLEAN :
           RequestWithin(t, tokens, oc, MaxRequests)

SpecKeys == Init /\ [][NextKeys]_vars

(***************************************************************************)
(* SpecCount: the counters (INCR, INCRBY, HINCRBY) over strings and hash   *)
(* fields that hold a small number, the largest i64, or no number.         *)
(***************************************************************************)
N_MAX == to_string(int_MAX)
N_MINUS_1 == <<"-", "1">>

CountRequests == {
    <<Verb("Set"), K_a, V_7>>,
    <<Verb("Set"), K_a, N_MAX>>,
    <<Verb("Set"), K_a, V_v>>,
    <<Verb("Hset"), K_a, F_f, V_v>>,
    <<Verb("Hset"), K_a, F_f, N_MAX>>,
    <<Verb("Incr"), K_a>>,
    <<Verb("IncrBy"), K_a, V_7>>,
    <<Verb("IncrBy"), K_a, N_MINUS_1>>,
    <<Verb("HincrBy"), K_a, F_f, N_1>>,
    <<Verb("Get"), K_a>>,
    <<Verb("Hget"), K_a, F_f>> }

NextCount ==
    \/ \E n \in 1..MaxClients : Accept(n)
    \/ \E t \in DOMAIN clients : \E tokens \in CountRequests : \E oc \in BOOLEAN :
           RequestWithin(t, tokens, oc, MaxRequests)

SpecCount == Init /\ [][NextCount]_vars

(***************************************************************************)
(* SpecList: pushes and pops on one key, with and without a count.         *)
(***************************************************************************)
N_2 == <<"2">>

ListRequests == {
    <<Verb("Lpush"), K_a, V_v, V_w>>,
    <<Verb("Rpush"), K_a, V_v, V_w>>,
    <<Verb("Rpush"), K_a, V_7>>,
    <<Verb("Lpop"), K_a>>,
    <<Verb("Rpop"), K_a>>,
    <<Verb("Lpop"), K_a, N_0>>,
    <<Verb("Lpop"), K_a, N_2>>,
    <<Verb("Rpop"), K_a, N_2>>,
    <<Verb("LLen"), K_a>>,
    <<Verb("Lrange"), K_a, N_0, N_MINUS_1>>,
    <<Verb("Lrange"), K_a, N_1, N_1>>,
    <<Verb("Lrange"), K_a, N_1, N_0>>,
    <<Verb("Set"), K_a, V_v>> }

NextList ==
    \/ \E n \in 1..MaxClients : Accept(n)
    \/ \E t \in DOMAIN clients : \E tokens \in ListRequests : \E oc \in BOOLEAN :
           RequestWithin(t, tokens, oc, MaxRequests)

SpecList == Init /\ [][NextList]_vars

(***************************************************************************)
(* SpecHash: writes and reads of the fields of one hash.                   *)
(***************************************************************************)
F_g == <<"g">>

HashWrites == {
    <<Verb("Hset"), K_a, F_f, V_v>>,
    <<Verb("Hset"), K_a, F_f, V_w, F_g, V_v>>,
    <<Verb("Hset"), K_a, F_g, V_v, F_g, V_w>>,
    <<Verb("HMSet"), K_a, F_f, V_v>> }

HashRequests == HashWrites \cup {
    <<Verb("Hget"), K_a, F_f>>,
    <<Verb("HMget"), K_a, F_f, F_g>>,
    <<Verb("HMget"), K_a, F_g>>,
    <<Verb("HgetAll"), K_a>>,
    <<Verb("Hexists"), K_a, F_f>>,
    <<Verb("Hkeys"), K_a>>,
    <<Verb("Set"), K_a, V_v>> }

NextHash ==
    \/ \E n \in 1..MaxClients : Accept(n)
    \/ \E t \in DOMAIN clients : \E tokens \in HashRequests : \E oc \in BOOLEAN :
           RequestWithin(t, tokens, oc, MaxRequests)

SpecHash == Init /\ [][NextHash]_vars

(***************************************************************************)
(* SpecSet: two keys that hold sets, a string or nothing.                  *)
(***************************************************************************)
SetRequests == {
    <<Verb("Sadd"), K_a, V_v>>,
    <<Verb("Sadd"), K_a, V_v, V_w>>,
    <<Verb("Sadd"), K_a, V_w, V_w>>,
    <<Verb("Sadd"), K_b, V_w>>,
    <<Verb("Set"), K_b, V_w>>,
    <<Verb("Sunion"), K_a, K_b>>,
    <<Verb("Sinter"), K_a, K_b>>,
    <<Verb("Sinter"), K_b, K_a>>,
    <<Verb("Sdiff"), K_a, K_b>>,
    <<Verb("Sdiff"), K_b, K_a>>,
    <<Verb("Sismember"), K_a, V_v>>,
    <<Verb("Scard"), K_a>>,
    <<Verb("Smembers"), K_a>> }

NextSet ==
    \/ \E n \in 1..MaxClients : Accept(n)
    \/ \E t \in DOMAIN clients : \E tokens \in SetRequests : \E oc \in BOOLEAN :
           RequestWithin(t, tokens, oc, MaxRequests)

SpecSet == Init /\ [][NextSet]_vars

(***************************************************************************)
(* SpecZset: whole commands on one sorted set: members with equal scores,  *)
(* scores against the order of the members, a score replaced, a member     *)
(* given twice, increments up to the overflow, and the range queries.      *)
(***************************************************************************)
ZsetRequests == {
    <<Verb("Zadd"), K_a, N_1, V_v>>,
    <<Verb("Zadd"), K_a, N_2, V_v>>,
    <<Verb("Zadd"), K_a, N_1, V_w>>,
    <<Verb("Zadd"), K_a, N_2, V_v, N_1, V_w>>,
    <<Verb("Zadd"), K_a, N_1, V_v, N_2, V_v>>,
    <<Verb("Zincrby"), K_a, N_1, V_v>>,
    <<Verb("Zincrby"), K_a, N_MINUS_1, V_w>>,
    <<Verb("Zincrby"), K_a, N_MAX, V_w>>,
    <<Verb("Set"), K_a, V_v>>,
    <<Verb("Zscore"), K_a, V_v>>,
    <<Verb("Zrank"), K_a, V_v>>,
    <<Verb("Zrevrank"), K_a, V_v>>,
    <<Verb("Zcard"), K_a>>,
    <<Verb("Zrange"), K_a, N_0, N_MINUS_1, B_WITHSCORES>>,
    <<Verb("Zrange"), K_a, N_0, N_MINUS_1, B_REV>>,
    <<Verb("Zrevrange"), K_a, N_0, N_MINUS_1>> }

NextZset ==
    \/ \E n \in 1..MaxClients : Accept(n)
    \/ \E t \in DOMAIN clients : \E tokens \in ZsetRequests : \E oc \in BOOLEAN :
           RequestWithin(t, tokens, oc, MaxRequests)

SpecZset == Init /\ [][NextZset]_vars

(***************************************************************************)
(* SpecWire: what a client may put on the wire besides a RESP array with   *)
(* an upper-case verb: a verb in another case, an inline line, bulk        *)
(* strings without the array header or with a header that miscounts, and   *)
(* the verbs that are accepted for the sake of client libraries.           *)
(***************************************************************************)
\* A client with nothing outstanding writes `bytes`, they arrive in one
\* segment and the readable branch runs on them.
Submit(t, bytes, overflow_checks) ==
    /\ status = "running"
    /\ t \in DOMAIN clients
    /\ net.conn[t].peer = "open"
    /\ net.conn[t].held = <<>>
    /\ net.conn[t].inq = <<>>
    /\ ~net.conn[t].event
    /\ net.sends < MaxWire
    /\ Handle(t, [net EXCEPT !.sends = @ + 1,
                             !.conn[t].inq = bytes,
                             !.conn[t].sent = Append(@, Sent(bytes, net.conn[t]))],
              FALSE, overflow_checks)

\* the tokens as bulk strings without the array header
headless(tokens) == encode_parts(tokens)

\* the tokens as one line, separated by single spaces
RECURSIVE joined(_)
joined(tokens) ==
    IF Len(tokens) = 1 THEN tokens[1] ELSE tokens[1] \o <<SP>> \o joined(Tail(tokens))
inline(tokens) == joined(tokens) \o CRLF

\* the tokens under an array header that announces `n` of them
counted(n, tokens) == <<"*">> \o to_string(n) \o CRLF \o encode_parts(tokens)

L_get == <<"g", "e", "t">>
M_Set == <<"S", "e", "t">>
T_SETINFO == <<"S", "E", "T", "I", "N", "F", "O">>
T_SETNAME == <<"S", "E", "T", "N", "A", "M", "E">>
T_DOCS == <<"D", "O", "C", "S">>

\* requests with the verb in upper case, and the same in another case
UpperRequests == {<<Verb("Get"), K_a>>, <<Verb("Set"), K_a, V_v>>}
CasedRequests == {<<L_get, K_a>>, <<M_Set, K_a, V_v>>}

\* requests sent as an inline line
InlineRequests == {<<Verb("Ping")>>, <<Verb("DbSize")>>, <<Verb("Set"), K_a, V_v>>,
                   <<Verb("Get"), K_a>>}

\* requests sent with and without the array header
OperandRequests == {
    <<Verb("Ping")>>,
    <<Verb("Get"), K_a>>,
    <<Verb("Set"), K_a, V_v>>,
    <<Verb("Del"), K_a, K_b>>,
    <<Verb("Lpush"), K_a, V_v, V_w>>,
    <<Verb("Rpush"), K_a, V_v, V_w>>,
    <<Verb("Lpop"), K_a>>,
    <<Verb("Lpop"), K_a, N_1>>,
    <<Verb("Rpop"), K_a, N_2>>,
    <<Verb("HMSet"), K_a, F_f, V_v>> }

ExpiringRequests == {<<Verb("SetEx"), K_a, N_1, V_v>>, <<Verb("Set"), K_a, V_v, B_EX, N_1>>}

PushXRequests == {<<Verb("LpushX"), K_a, V_w>>, <<Verb("RpushX"), K_a, V_w>>,
                  <<Verb("RpushX"), K_b, V_w>>}

ToleratedRequests == {
    <<Verb("ClientSetInfo"), T_SETINFO, B_LIB_NAME, V_v>>,
    <<Verb("ClientSetInfo"), T_SETNAME, V_v>>,
    <<Verb("Config"), Verb("Get"), V_v>>,
    <<Verb("Config"), Verb("Set"), V_v, V_w>>,
    <<Verb("CommandDocs"), T_DOCS>>,
    <<Verb("CommandDocs"), T_DOCS, Verb("Get")>> }

WireInputs ==
    {resp_frame(r) : r \in UpperRequests \cup CasedRequests \cup OperandRequests
                          \cup ExpiringRequests \cup PushXRequests \cup ToleratedRequests}
    \cup {inline(r) : r \in InlineRequests}
    \cup {headless(r) : r \in OperandRequests}
    \cup {counted(9, r) : r \in UpperRequests}

NextWire ==
    \/ \E n \in 1..MaxClients : Accept(n)
    \/ \E t \in DOMAIN clients : \E bytes \in WireInputs : \E oc \in BOOLEAN :
           Submit(t, bytes, oc)

SpecWire == Init /\ [][NextWire]_vars

(***************************************************************************)
(* SpecParse: parse as a function of the buffer.  The buffer holds the     *)
(* first bytes of a frame, as after extend_from_slice (main.rs:127).       *)
(***************************************************************************)
F_SET_EX == resp_frame(<<Verb("Set"), K_a, V_v, B_EX, N_1>>)
F_TTL == resp_frame(<<Verb("Ttl"), K_a>>)
F_PING == resp_frame(<<Verb("Ping")>>)

ParseWellFormed == {F_SET, F_GET, F_RPUSH, F_SETGET, F_SET_EX, F_TTL, F_PING}
ParseFrames == ParseWellFormed \cup {F_PING_INLINE, F_UNKNOWN, F_LPUSHX, F_INCRBY_NAN,
                                     F_INCRBY_BIG, F_HSET_ODD, F_BAD_LEN}

InitParse ==
    /\ hmap = EmptyMap
    /\ \E f \in ParseFrames : \E n \in 0..Len(f) : clients = (1 :> Client(Take(f, n)))
    /\ next_token_id = 2
    /\ latency_histograms = EmptyMap
    /\ status = "running"
    /\ now = 0
    /\ net = [conn |-> (1 :> Socket), sends |-> 0, splits |-> 0]
    /\ log = <<>>
    /\ last = NoLast

NextParse == \E t \in DOMAIN clients : Parse(t)

SpecParse == InitParse /\ [][NextParse]_vars

(***************************************************************************)
(* Properties.                                                             *)
(***************************************************************************)
Executed(op) == last.how = "Ok" /\ last.cmd.some /\ last.cmd.v.op = op

StringVariants == {"Plain", "TtlPlain"}
StringOps == {"Get", "SetAndGet", "SetKeepTtl", "Incr", "IncrBy"}
ListOps == {"Lpush", "Rpush", "Lpop", "Rpop", "Lrange", "LLen"}
HashOps == {"Hget", "HMset"}
SetOps == {"Sadd", "Sismember"}

ExpectedVariants(op) ==
    CASE op \in StringOps -> StringVariants
      [] op \in ListOps   -> {"List"}
      [] op \in HashOps   -> {"Dict"}
      [] op \in SetOps    -> {"Set"}
      [] OTHER            -> StringVariants \cup {"List", "Dict", "Set"}

IsProperPrefix(p, f) == Len(p) < Len(f) /\ Take(f, Len(p)) = p

OfToken(t) == SelectSeq(log, LAMBDA e : e.tok = t)

Quiet(s) == s.peer = "open" /\ s.held = <<>> /\ s.inq = <<>> /\ ~s.event

\* C1: once SET k v (no options) has been executed, the GET k that comes next
\* is answered with the bulk string v, whatever variant k held before.
C1_SetThenGet ==
    (Executed("Set") /\ ~last.cmd.v.ttl.some)
    => exec_Get(hmap, [op |-> "Get", key |-> last.cmd.v.key]).reply
           = write_bulk_string(last.cmd.v.value)

C1_Witness ==
    /\ Executed("Set") /\ ~last.cmd.v.ttl.some
    /\ last.cmd.v.key \in DOMAIN last.before
    /\ last.before[last.cmd.v.key].t = "List"
    /\ hmap[last.cmd.v.key] = Plain(last.cmd.v.value)

\* C2: a typed command on a key that holds a value of another variant is
\* answered -WRONGTYPE and leaves the keyspace as it was before the command.
C2_WrongTypeLeavesKeyspace ==
    (/\ last.how = "Ok" /\ last.cmd.some
     /\ "key" \in DOMAIN last.cmd.v
     /\ last.cmd.v.key \in DOMAIN last.before
     /\ last.before[last.cmd.v.key].t \notin ExpectedVariants(last.cmd.v.op))
    => (last.reply.v.kind = "wrongtype" /\ hmap = last.before)

\* C3: a RESP command that reaches the server in two reads is executed once
\* and answered once; after the first read nothing has been executed or
\* written and the server has not aborted.
C3_SplitExecutesOnce ==
    \A t \in DOMAIN net.conn : \A f \in {F_SET, F_GET} :
        (Len(net.conn[t].sent) = 1 /\ net.conn[t].sent[1].frame = f /\ ~net.conn[t].event)
        => /\ (net.conn[t].held # <<>> /\ net.conn[t].read > 0)
                  => /\ net.conn[t].out = <<>>
                     /\ OfToken(t) = <<>>
                     /\ (last.tok = t => last.how # "Panic")
           /\ (Quiet(net.conn[t]) /\ net.conn[t].read = Len(f))
                  => /\ Len(net.conn[t].out) = 1
                     /\ Len(OfToken(t)) = 1

\* C4: parse applied to a proper prefix of a well-formed frame reports
\* incomplete input: no parse error, no other command, no abort.
C4_PrefixIsIncomplete ==
    \A t \in DOMAIN clients : \A f \in ParseWellFormed :
        (last.how # "none" /\ IsProperPrefix(clients[t].read_buf, f))
        => last.how = "IncompleteInput"

\* C5: whatever bytes the clients send, the event loop goes on: the process
\* neither panics nor runs into undefined behaviour.
C5_InputNeverStopsLoop == status \in {"running", "exited"}

\* C6: after the -ERR for a frame with an unknown verb the connection is still
\* registered and the well-formed command sent next is executed and answered.
C6_RecoversAfterError ==
    \A t \in DOMAIN net.conn : \A f \in WellFormed :
        (/\ status = "running"
         /\ Quiet(net.conn[t])
         /\ Len(net.conn[t].sent) = 2
         /\ net.conn[t].sent[1].frame = F_UNKNOWN
         /\ net.conn[t].sent[2] = [frame |-> f, replies |-> 1]
         /\ net.conn[t].out[1].reply.kind = "err")
        => /\ t \in DOMAIN clients
           /\ Len(net.conn[t].out) = 2
           /\ net.conn[t].out[2].reply.kind # "err"

\* C7: the commands of one connection are executed in the order their bytes
\* arrived, and their replies are written in that order, each one whole
\* before the next begins.
C7_PerConnectionOrder ==
    \A t \in DOMAIN net.conn :
        /\ \A i \in 1..(Len(OfToken(t)) - 1) : OfToken(t)[i].upto <= OfToken(t)[i + 1].from
        /\ \A k \in 1..(Len(net.conn[t].out) - 1) :
               /\ net.conn[t].out[k].whole
               /\ net.conn[t].out[k].upto < net.conn[t].out[k + 1].upto
        /\ \A i \in 1..Len(OfToken(t)) :
               OfToken(t)[i].answered
               => \E k \in 1..Len(net.conn[t].out) :
                      /\ net.conn[t].out[k].upto = OfToken(t)[i].upto
                      /\ net.conn[t].out[k].reply = OfToken(t)[i].reply
                      /\ net.conn[t].out[k].whole

C7_Witness ==
    \E t \in DOMAIN net.conn :
        /\ Len(OfToken(t)) = 2
        /\ OfToken(t)[1].answered /\ OfToken(t)[2].answered
        /\ OfToken(t)[1].cmd # OfToken(t)[2].cmd
        /\ Len(net.conn[t].out) = 2

\* the commands of es, executed one after another from keyspace h, give the
\* replies that were logged and end in the present keyspace
RECURSIVE Serial(_, _)
Serial(h, es) ==
    IF es = <<>> THEN h = hmap
    ELSE \E oc \in BOOLEAN :
             \E e \in {Exec(h, es[1].cmd, es[1].at, oc)} :
                 /\ e.panic = es[1].panic
                 /\ e.reply = es[1].reply
                 /\ Serial(e.hmap, Tail(es))

C9_ExpiringValue ==
    (/\ Executed("Get")
     /\ last.cmd.v.key \in DOMAIN last.before
     /\ last.before[last.cmd.v.key].t = "TtlPlain")
    => last.reply.v = IF last.at < last.before[last.cmd.v.key].eol
                      THEN write_bulk_string(last.before[last.cmd.v.key].bytes)
                      ELSE key_not_found

\* C10: TTL k answers the integer -2 when k is missing or expired, -1 when k
\* has no expiry, and otherwise the remaining whole seconds, positive and no
\* more than the time that is left.
C10_TtlReply ==
    Executed("Ttl")
    => IF \/ last.cmd.v.key \notin DOMAIN last.before
          \/ /\ last.before[last.cmd.v.key].t = "TtlPlain"
             /\ last.before[last.cmd.v.key].eol <= last.at
       THEN last.reply.v = write_integer(to_string(0 - 2))
       ELSE IF last.before[last.cmd.v.key].t # "TtlPlain"
       THEN last.reply.v = write_integer(to_string(0 - 1))
       ELSE \E n \in 1..int_MAX :
                /\ last.reply.v = write_integer(to_string(n))
                /\ (n - 1) * MillisPerSec < last.before[last.cmd.v.key].eol - last.at

Listed(keys) == {keys[j] : j \in DOMAIN keys}

\* C11: after DEL k1 .. kn no listed key exists, the other keys are as they
\* were, and the reply is the integer count of the distinct listed keys that
\* existed before.
C11_DelCountsRemoved ==
    Executed("Del")
    => /\ \A k \in Listed(last.cmd.v.keys) :
              exec_Exists(hmap, [op |-> "Exists", key |-> k]).reply
                  = write_integer(to_string(0))
       /\ \A k \in DOMAIN last.before \ Listed(last.cmd.v.keys) :
              k \in DOMAIN hmap /\ hmap[k] = last.before[k]
       /\ last.reply.v = write_integer(to_string(
              Cardinality(Listed(last.cmd.v.keys) \cap DOMAIN last.before)))

\* C12: once FLUSHDB has been answered OK the keyspace is empty: DBSIZE is 0
\* and no key is found.
C12_FlushDbEmpties ==
    (Executed("FlushDb") /\ last.reply.v = ok)
    => /\ hmap = EmptyMap
       /\ Exec(hmap, [op |-> "DbSize"], now, TRUE).reply = write_integer(to_string(0))

AfterWrite(h, key, val) == [k \in DOMAIN h \cup {key} |-> IF k = key THEN Plain(val) ELSE h[k]]

\* C13: SET k v NX stores v exactly when k was absent and SET k v XX exactly
\* when k was present; otherwise the keyspace is left as it was.
C13_SetNxXx ==
    /\ Executed("SetNx")
       => hmap = IF last.cmd.v.key \in DOMAIN last.before THEN last.before
                 ELSE AfterWrite(last.before, last.cmd.v.key, last.cmd.v.value)
    /\ Executed("SetXx")
       => hmap = IF last.cmd.v.key \in DOMAIN last.before
                 THEN AfterWrite(last.before, last.cmd.v.key, last.cmd.v.value)
                 ELSE last.before

C13_Witness ==
    /\ Executed("SetNx")
    /\ last.cmd.v.key \in DOMAIN last.before
    /\ last.before[last.cmd.v.key] # Plain(last.cmd.v.value)
    /\ hmap = last.before

\* C14: SET k v GET answers the bytes k held as a string (with or without a
\* deadline), or the null bulk string when k was absent, and k holds the
\* plain string v afterwards.
C14_SetGetPrior ==
    (/\ Executed("SetAndGet")
     /\ last.cmd.v.key \in DOMAIN last.before
            => last.before[last.cmd.v.key].t \in StringVariants)
    => /\ last.reply.v = IF last.cmd.v.key \in DOMAIN last.before
                         THEN write_bulk_string(last.before[last.cmd.v.key].bytes)
                         ELSE key_not_found
       /\ hmap = AfterWrite(last.before, last.cmd.v.key, last.cmd.v.value)

C14_Witness ==
    /\ Executed("SetAndGet")
    /\ last.cmd.v.key \in DOMAIN last.before
    /\ last.before[last.cmd.v.key].t = "TtlPlain"
    /\ last.before[last.cmd.v.key].bytes # last.cmd.v.value
    /\ last.reply.v = write_bulk_string(last.before[last.cmd.v.key].bytes)
    /\ hmap[last.cmd.v.key] = Plain(last.cmd.v.value)

\* C15: SET k v KEEPTTL is answered OK and leaves v at k, with the deadline k
\* had before if it had one and without a deadline otherwise.
C15_KeepTtl ==
    (/\ Executed("SetKeepTtl")
     /\ last.cmd.v.key \in DOMAIN last.before
            => last.before[last.cmd.v.key].t \in StringVariants)
    => /\ last.reply.v = ok
       /\ hmap[last.cmd.v.key] =
              IF /\ last.cmd.v.key \in DOMAIN last.before
                 /\ last.before[last.cmd.v.key].t = "TtlPlain"
              THEN TtlPlain(last.cmd.v.value, last.before[last.cmd.v.key].eol)
              ELSE Plain(last.cmd.v.value)

\* the command the handler took up last, whether it returned or panicked
Attempted(ops) == last.how \in {"Ok", "Panic"} /\ last.cmd.some /\ last.cmd.v.op \in ops

Delta(c) == IF c.op = "Incr" THEN 1 ELSE c.incr_by

\* C16: INCR k and INCRBY k d on a missing key count from 0: the reply is the
\* integer 1 (d for INCRBY) and GET k then returns that number in decimal.
C16_IncrMissingKey ==
    (Attempted({"Incr", "IncrBy"}) /\ last.cmd.v.key \notin DOMAIN last.before)
    => /\ last.how = "Ok"
       /\ last.reply.v = write_integer(to_string(Delta(last.cmd.v)))
       /\ exec_Get(hmap, [op |-> "Get", key |-> last.cmd.v.key]).reply
              = write_bulk_string(to_string(Delta(last.cmd.v)))

\* the text the counter command finds: the string at the key, or the hash field
Counted(h, c) ==
    CASE c.key \notin DOMAIN h -> None
      [] c.key \in DOMAIN h /\ c.op \in {"Incr", "IncrBy"} /\ h[c.key].t = "Plain" ->
            Some(h[c.key].bytes)
      [] c.key \in DOMAIN h /\ c.op = "HincrBy" /\ h[c.key].t = "Dict" ->
            get(h[c.key].map, c.field)
      [] OTHER -> None

OutOfRange(text, d) ==
    \/ ~from_str_signed(text).some
    \/ from_str_signed(text).v + d > int_MAX
    \/ from_str_signed(text).v + d < 0 - (int_MAX + 1)

\* C17: INCR, INCRBY and HINCRBY on a stored text that is no signed 64-bit
\* decimal, or whose sum with the delta leaves the signed 64-bit range, are
\* answered with an error and leave the keyspace as it was; nothing wraps
\* and the server does not abort.
C17_CounterRange ==
    (/\ Attempted({"Incr", "IncrBy", "HincrBy"})
     /\ Counted(last.before, last.cmd.v).some
     /\ OutOfRange(Counted(last.before, last.cmd.v).v, Delta(last.cmd.v)))
    => /\ last.how = "Ok"
       /\ last.reply.v.kind \in {"wrongtype", "err"}
       /\ hmap = last.before

\* the list a key holds; a missing key counts as the empty list
ItemsAt(h, key) == IF key \in DOMAIN h THEN h[key].items ELSE <<>>

ListOrNone(h, key) == key \in DOMAIN h => h[key].t = "List"

\* `after` is `vals` reversed, followed by `before`
PushedFront(before, vals, after) ==
    /\ Len(after) = Len(vals) + Len(before)
    /\ \A j \in 1..Len(vals) : after[j] = vals[Len(vals) + 1 - j]
    /\ \A j \in 1..Len(before) : after[Len(vals) + j] = before[j]

\* `after` is `before` followed by `vals`
PushedBack(before, vals, after) ==
    /\ Len(after) = Len(before) + Len(vals)
    /\ \A j \in 1..Len(before) : after[j] = before[j]
    /\ \A j \in 1..Len(vals) : after[Len(before) + j] = vals[j]

\* C18: LPUSH k v1 .. vn leaves [vn, .., v1, existing..] and RPUSH leaves
\* [existing.., v1, .., vn]; a missing key becomes a list.
C18_PushOrder ==
    /\ (Executed("Lpush") /\ ListOrNone(last.before, last.cmd.v.key))
       => /\ last.cmd.v.key \in DOMAIN hmap
          /\ hmap[last.cmd.v.key].t = "List"
          /\ PushedFront(ItemsAt(last.before, last.cmd.v.key), last.cmd.v.values,
                         hmap[last.cmd.v.key].items)
    /\ (Executed("Rpush") /\ ListOrNone(last.before, last.cmd.v.key))
       => /\ last.cmd.v.key \in DOMAIN hmap
          /\ hmap[last.cmd.v.key].t = "List"
          /\ PushedBack(ItemsAt(last.before, last.cmd.v.key), last.cmd.v.values,
                        hmap[last.cmd.v.key].items)

C18_Witness ==
    /\ Executed("Lpush")
    /\ last.cmd.v.key \in DOMAIN last.before
    /\ last.before[last.cmd.v.key].t = "List"
    /\ Len(last.before[last.cmd.v.key].items) >= 1
    /\ Len(last.cmd.v.values) = 2
    /\ last.cmd.v.values[1] # last.cmd.v.values[2]
    /\ Len(hmap[last.cmd.v.key].items) >= 3

\* C19: the integer LPUSH and RPUSH reply with is the length of the list
\* after the push, which is what LLEN k replies next.
C19_PushRepliesLength ==
    (Executed("Lpush") \/ Executed("Rpush")) /\ last.reply.v.kind = "integer"
    => last.reply.v = exec_LLen(hmap, [op |-> "LLen", key |-> last.cmd.v.key]).reply

HowMany(count, n) == IF count.v < n THEN count.v ELSE n

\* what a pop of `c` leaves (rem) and answers (reply), for the list `l` before
PoppedAs(c, l, rem, reply) ==
    IF ~c.count.some
    THEN /\ reply = write_bulk_string(IF c.op = "Lpop" THEN l[1] ELSE l[Len(l)])
         /\ Len(rem) = Len(l) - 1
         /\ \A j \in 1..Len(rem) : rem[j] = (IF c.op = "Lpop" THEN l[j + 1] ELSE l[j])
    ELSE /\ reply.kind = "array"
         /\ reply.len = HowMany(c.count, Len(l))
         /\ Len(reply.elems) = HowMany(c.count, Len(l))
         /\ \A j \in 1..Len(reply.elems) :
                reply.elems[j] = (IF c.op = "Lpop" THEN l[j] ELSE l[Len(l) + 1 - j])
         /\ Len(rem) = Len(l) - HowMany(c.count, Len(l))
         /\ \A j \in 1..Len(rem) :
                rem[j] = (IF c.op = "Lpop" THEN l[HowMany(c.count, Len(l)) + j] ELSE l[j])

Clip(x, len) == IF x < 0 THEN 0 ELSE IF x > len - 1 THEN len - 1 ELSE x
Normalized(x, len) == Clip(IF x < 0 THEN len + x ELSE x, len)

Slice(l, s, e) == IF l = <<>> \/ s > e THEN <<>> ELSE SubSeq(l, s + 1, e + 1)

InList(x, len) == 0 - len <= x /\ x <= len - 1

\* C21: LRANGE k start stop answers the elements at the normalised positions
\* s..e inclusive, in list order, and the empty array when s > e.  Stated
\* for indices that name an element of the list, where clipping changes
\* nothing.
C21_LrangeSlice ==
    (/\ Executed("Lrange")
     /\ last.cmd.v.key \in DOMAIN last.before
     /\ last.before[last.cmd.v.key].t = "List"
     /\ InList(last.cmd.v.start, Len(last.before[last.cmd.v.key].items))
     /\ InList(last.cmd.v.end, Len(last.before[last.cmd.v.key].items)))
    => /\ last.reply.v.kind = "array"
       /\ last.reply.v.elems =
              Slice(last.before[last.cmd.v.key].items,
                    Normalized(last.cmd.v.start, Len(last.before[last.cmd.v.key].items)),
                    Normalized(last.cmd.v.end, Len(last.before[last.cmd.v.key].items)))
       /\ last.reply.v.len = Len(last.reply.v.elems)

\* the request the handler took up last was this one
Asked(tokens) ==
    /\ last.how \in {"Ok", "Panic"}
    /\ last.tok \in DOMAIN net.conn
    /\ net.conn[last.tok].sent # <<>>
    /\ net.conn[last.tok].sent[Len(net.conn[last.tok].sent)].frame = resp_frame(tokens)

DictOrNone(h, key) == key \in DOMAIN h => h[key].t = "Dict"

\* <<verb, key, f1, v1, .., fn, vn>>: the pairs, and the value that wins for f
NPairs(tokens) == (Len(tokens) - 2) \div 2
FieldAt(tokens, j) == tokens[2 * j + 1]
ValueAt(tokens, j) == tokens[2 * j + 2]
FinalValue(tokens, f) ==
    ValueAt(tokens, CHOOSE j \in 1..NPairs(tokens) :
                        /\ FieldAt(tokens, j) = f
                        /\ \A i \in (j + 1)..NPairs(tokens) : FieldAt(tokens, i) # f)
Named(tokens) == {FieldAt(tokens, j) : j \in 1..NPairs(tokens)}

Stored(tokens) ==
    /\ last.how = "Ok"
    /\ tokens[2] \in DOMAIN hmap
    /\ hmap[tokens[2]].t = "Dict"
    /\ \A f \in Named(tokens) :
           exec_Hget(hmap, [op |-> "Hget", key |-> tokens[2], field |-> f]).reply
               = write_bulk_string(FinalValue(tokens, f))
    /\ tokens[2] \in DOMAIN last.before
           => \A f \in DOMAIN last.before[tokens[2]].map \ Named(tokens) :
                  /\ f \in DOMAIN hmap[tokens[2]].map
                  /\ hmap[tokens[2]].map[f] = last.before[tokens[2]].map[f]

\* C22: after HSET / HMSET k f1 v1 .. fn vn, HGET k fi answers vi (the last
\* value given for a repeated field), the other fields are as before, and a
\* missing key has become a hash.
C22_HsetThenHget ==
    \A tokens \in HashWrites :
        (Asked(tokens) /\ DictOrNone(last.before, tokens[2])) => Stored(tokens)

\* C23: HMGET k f1 .. fn on a hash answers an array of n elements, the i-th
\* being the value of fi or the null bulk string when fi is no field.
C23_HmgetPositions ==
    (/\ Executed("HMget")
     /\ last.cmd.v.key \in DOMAIN last.before
     /\ last.before[last.cmd.v.key].t = "Dict")
    => /\ last.reply.v.kind = "array"
       /\ last.reply.v.len = Len(last.cmd.v.fields)
       /\ Len(last.reply.v.elems) = Len(last.cmd.v.fields)
       /\ \A i \in 1..Len(last.cmd.v.fields) :
              IF last.cmd.v.fields[i] \in DOMAIN last.before[last.cmd.v.key].map
              THEN last.reply.v.elems[i]
                       = last.before[last.cmd.v.key].map[last.cmd.v.fields[i]]
              ELSE last.reply.v.elems[i] = key_not_found

\* C24: HGETALL k on a hash of n fields answers an array declared with 2n
\* elements: every field once, each followed by its value.
C24_HgetAllPairs ==
    (/\ Executed("HgetAll")
     /\ last.cmd.v.key \in DOMAIN last.before
     /\ last.before[last.cmd.v.key].t = "Dict")
    => /\ last.reply.v.kind = "array"
       /\ last.reply.v.len = 2 * Cardinality(DOMAIN last.before[last.cmd.v.key].map)
       /\ Len(last.reply.v.elems) = last.reply.v.len
       /\ {last.reply.v.elems[2 * j - 1] : j \in 1..(last.reply.v.len \div 2)}
              = DOMAIN last.before[last.cmd.v.key].map
       /\ \A j \in 1..(last.reply.v.len \div 2) :
              last.reply.v.elems[2 * j]
                  = last.before[last.cmd.v.key].map[last.reply.v.elems[2 * j - 1]]

\* the set a key holds; a missing key counts as the empty set
MembersAt(h, key) == IF key \in DOMAIN h THEN h[key].members ELSE {}

SetOrNone(h, key) == key \in DOMAIN h => h[key].t = "Set"

\* C25: SADD k m1 .. mn answers the number of distinct given members that
\* were not in the set; the same SADD again answers 0 and changes nothing.
C25_SaddCountsNew ==
    (Executed("Sadd") /\ SetOrNone(last.before, last.cmd.v.key))
    => /\ last.reply.v = write_integer(to_string(Cardinality(
              Listed(last.cmd.v.values) \ MembersAt(last.before, last.cmd.v.key))))
       /\ MembersAt(hmap, last.cmd.v.key)
              = MembersAt(last.before, last.cmd.v.key) \cup Listed(last.cmd.v.values)
       /\ exec_Sadd(hmap, last.cmd.v).reply = write_integer(to_string(0))
       /\ exec_Sadd(hmap, last.cmd.v).hmap = hmap

C25_Witness ==
    /\ Executed("Sadd")
    /\ last.cmd.v.key \in DOMAIN last.before
    /\ last.before[last.cmd.v.key].t = "Set"
    /\ Len(last.cmd.v.values) = 2
    /\ last.cmd.v.values[1] = last.cmd.v.values[2]
    /\ last.cmd.v.values[1] \notin last.before[last.cmd.v.key].members
    /\ last.reply.v = write_integer(to_string(1))

\* what SUNION, SINTER and SDIFF are to answer over the keys `keys`
Combined(op, h, keys) ==
    CASE op = "Sunion" -> UNION {MembersAt(h, keys[j]) : j \in DOMAIN keys}
      [] op = "Sinter" -> {x \in MembersAt(h, keys[1]) :
                              \A j \in DOMAIN keys : x \in MembersAt(h, keys[j])}
      [] op = "Sdiff"  -> {x \in MembersAt(h, keys[1]) :
                              \A j \in DOMAIN keys \ {1} : x \notin MembersAt(h, keys[j])}

SetAlgebra == {"Sunion", "Sinter", "Sdiff"}

\* C26: over keys that hold sets or are missing, SUNION answers the union,
\* SINTER the intersection (empty when a key is missing) and SDIFF the first
\* set less the others, each member once; the keyspace is not changed.
C26_SetAlgebra ==
    (/\ last.how = "Ok" /\ last.cmd.some /\ last.cmd.v.op \in SetAlgebra
     /\ last.cmd.v.keys # <<>>
     /\ \A j \in DOMAIN last.cmd.v.keys : SetOrNone(last.before, last.cmd.v.keys[j]))
    => /\ last.reply.v.kind = "array"
       /\ last.reply.v.len = Len(last.reply.v.elems)
       /\ Listed(last.reply.v.elems)
              = Combined(last.cmd.v.op, last.before, last.cmd.v.keys)
       /\ Cardinality(Listed(last.reply.v.elems)) = Len(last.reply.v.elems)
       /\ hmap = last.before

C26_Witness ==
    /\ Executed("Sinter")
    /\ \A j \in DOMAIN last.cmd.v.keys :
           /\ last.cmd.v.keys[j] \in DOMAIN last.before
           /\ last.before[last.cmd.v.keys[j]].t = "Set"
    /\ last.cmd.v.keys[1] # last.cmd.v.keys[2]
    /\ last.reply.v.kind = "array"
    /\ Cardinality(MembersAt(last.before, K_a)) = 2
    /\ Len(last.reply.v.elems) = 1

\* C27: SINTER, SUNION and SDIFF answer -WRONGTYPE when any of their keys
\* holds a value that is no set, wherever that key stands and whether or
\* not other keys are missing.
C27_SetAlgebraWrongType ==
    (/\ last.how = "Ok" /\ last.cmd.some /\ last.cmd.v.op \in SetAlgebra
     /\ \E j \in DOMAIN last.cmd.v.keys : ~SetOrNone(last.before, last.cmd.v.keys[j]))
    => last.reply.v.kind = "wrongtype"

ScoresAt(h, key) == IF key \in DOMAIN h THEN h[key].scores ELSE EmptyMap

ZsetOrNone(h, key) == key \in DOMAIN h => h[key].t = "SortedSet"

IsZset(h, key) == key \in DOMAIN h /\ h[key].t = "SortedSet"

\* C28: in every sorted set the index holds the pair (score, member) exactly
\* when the lookup maps the member to that score, so each member has one
\* pair; this holds after every ZADD (also one that names a member twice)
\* and every ZINCRBY.
C28_IndexMatchesLookup ==
    \A k \in DOMAIN hmap :
        hmap[k].t = "SortedSet"
        => /\ \A m \in DOMAIN hmap[k].scores : <<hmap[k].scores[m], m>> \in hmap[k].tree
           /\ \A p \in hmap[k].tree :
                  p[2] \in DOMAIN hmap[k].scores /\ hmap[k].scores[p[2]] = p[1]
           /\ \A m \in DOMAIN hmap[k].scores :
                  Cardinality({p \in hmap[k].tree : p[2] = m}) = 1

C28_Witness ==
    /\ Executed("Zincrby")
    /\ IsZset(last.before, last.cmd.v.key)
    /\ last.cmd.v.member \in DOMAIN last.before[last.cmd.v.key].scores
    /\ hmap[last.cmd.v.key].scores[last.cmd.v.member]
           # last.before[last.cmd.v.key].scores[last.cmd.v.member]
    /\ \E j \in DOMAIN log :
           /\ log[j].cmd.op = "Zadd"
           /\ Len(log[j].cmd.members) = 2
           /\ log[j].cmd.members[1][2] = log[j].cmd.members[2][2]
           /\ log[j].cmd.members[1][1] # log[j].cmd.members[2][1]

\* the members a ZADD names, and the score it gives last to member m
Scored(pairs) == {pairs[j][2] : j \in DOMAIN pairs}
LastScore(pairs, m) ==
    pairs[CHOOSE j \in DOMAIN pairs :
              pairs[j][2] = m /\ \A i \in DOMAIN pairs : i > j => pairs[i][2] # m][1]

\* C29: ZADD answers the number of members it names that had no score
\* before; afterwards each member it names has the score given last (also
\* when it had another score), which is what ZSCORE answers, and has one
\* pair in the sorted set.
C29_ZaddCountsNew ==
    /\ (Executed("Zadd") /\ ZsetOrNone(last.before, last.cmd.v.key))
       => /\ last.reply.v = write_integer(to_string(Cardinality(
                 Scored(last.cmd.v.members)
                     \ DOMAIN ScoresAt(last.before, last.cmd.v.key))))
          /\ \A m \in Scored(last.cmd.v.members) :
                 /\ exec_Zscore(hmap, [op |-> "Zscore", key |-> last.cmd.v.key,
                                       member |-> m]).reply
                        = write_bulk_string(to_string(LastScore(last.cmd.v.members, m)))
                 /\ Cardinality({p \in hmap[last.cmd.v.key].tree : p[2] = m}) = 1
    /\ (/\ Executed("Zscore") /\ IsZset(last.before, last.cmd.v.key)
        /\ last.cmd.v.member \in DOMAIN last.before[last.cmd.v.key].scores)
       => last.reply.v = write_bulk_string(to_string(
              last.before[last.cmd.v.key].scores[last.cmd.v.member]))

C29_Witness ==
    /\ Executed("Zscore")
    /\ Len(log) = 3
    /\ log[1].cmd.op = "Zadd" /\ log[2].cmd.op = "Zadd"
    /\ log[1].cmd.key = log[2].cmd.key /\ log[2].cmd.key = last.cmd.v.key
    /\ Len(log[1].cmd.members) = 1 /\ Len(log[2].cmd.members) = 1
    /\ log[1].cmd.members[1][2] = last.cmd.v.member
    /\ log[2].cmd.members[1][2] = last.cmd.v.member
    /\ log[1].cmd.members[1][1] # log[2].cmd.members[1][1]
    /\ log[2].reply = write_integer(to_string(0))
    /\ last.reply.v = write_bulk_string(to_string(log[2].cmd.members[1][1]))

\* ZRANGE/ZREVRANGE over the whole set
Whole(c) == c.start = 0 /\ c.stop = 0 - 1

\* the members of an array reply, which has the scores in between or not
MembersOf(reply, withscores) ==
    IF withscores
    THEN [j \in 1..(Len(reply.elems) \div 2) |-> reply.elems[2 * j - 1]]
    ELSE reply.elems

\* C30: ZRANGE k 0 -1 WITHSCORES answers every member of the sorted set
\* once, each followed by its score in decimal, in ascending order of score
\* and then of the member's bytes; ZREVRANGE k 0 -1 answers the same members
\* in the reverse order.
C30_RangeOrder ==
    /\ (/\ Executed("Zrange") /\ Whole(last.cmd.v) /\ last.cmd.v.withscores
        /\ IsZset(last.before, last.cmd.v.key))
       => LET scores == last.before[last.cmd.v.key].scores
              elems == last.reply.v.elems
              n == Cardinality(DOMAIN scores)
          IN  /\ last.reply.v.kind = "array"
              /\ last.reply.v.len = 2 * n /\ Len(elems) = 2 * n
              /\ {elems[2 * j - 1] : j \in 1..n} = DOMAIN scores
              /\ \A j \in 1..n : elems[2 * j] = to_string(scores[elems[2 * j - 1]])
              /\ \A i, j \in 1..n :
                     i < j => pair_lt(<<scores[elems[2 * i - 1]], elems[2 * i - 1]>>,
                                      <<scores[elems[2 * j - 1]], elems[2 * j - 1]>>)
    /\ (/\ Executed("Zrevrange") /\ Whole(last.cmd.v)
        /\ IsZset(last.before, last.cmd.v.key))
       => /\ last.reply.v.kind = "array"
          /\ last.reply.v.len = Len(last.reply.v.elems)
          /\ MembersOf(last.reply.v, last.cmd.v.withscores)
                 = Reverse(MembersOf(
                       exec_Zrange(last.before,
                                   [last.cmd.v EXCEPT !.op = "Zrange",
                                                      !.withscores = TRUE]).reply,
                       TRUE))

C30_Witness ==
    /\ Executed("Zrevrange")
    /\ Whole(last.cmd.v)
    /\ IsZset(last.before, last.cmd.v.key)
    /\ Cardinality(DOMAIN last.before[last.cmd.v.key].scores) = 2
    /\ Len(last.reply.v.elems) = 2
    /\ \E j \in DOMAIN log :
           /\ log[j].cmd.op = "Zrange" /\ log[j].cmd.withscores
           /\ log[j].reply.kind = "array" /\ log[j].reply.len = 4

\* the members a client may ask about
Askable == {V_v, V_w}

Handled(bytes) ==
    /\ last.how \notin {"none", "WouldBlock", "closed"}
    /\ last.tok \in DOMAIN net.conn
    /\ net.conn[last.tok].sent # <<>>
    /\ net.conn[last.tok].sent[Len(net.conn[last.tok].sent)].frame = bytes

\* how many inputs of connection t the parser has rejected; their bytes stay
\* in the buffer of the connection
Rejected(t) ==
    Cardinality({j \in DOMAIN net.conn[t].out :
                    net.conn[t].out[j].reply = generic_error("invalid input")})

\* the same, and the buffer of the connection held nothing before them
Fresh(bytes) ==
    /\ Handled(bytes)
    /\ Rejected(last.tok) = IF last.how = "Parse" THEN 1 ELSE 0

\* the request with its verb in upper case
UpperCased(r) == <<[j \in 1..Len(r[1]) |-> to_ascii_uppercase(r[1][j])]>> \o Tail(r)

\* C32: a frame whose verb is written in lower or mixed case parses to the
\* command that the frame with the upper-case verb parses to.
C32_VerbAnyCase ==
    \A r \in CasedRequests :
        Handled(resp_frame(r))
        => /\ parse(resp_frame(UpperCased(r))).r = "Ok"
           /\ last.how = "Ok"
           /\ last.cmd = Some(parse(resp_frame(UpperCased(r))).cmd)

\* the command the RESP array of the tokens parses to
AsArray(r) == parse(resp_frame(r)).cmd

\* C33: an inline line parses to the command that the RESP array of the
\* same tokens parses to, and the command is executed on those operands:
\* inline PING is answered as PING, inline SET k v stores what SET k v stores.
C33_InlineAsArray ==
    \A r \in InlineRequests :
        Fresh(inline(r))
        => /\ last.how = "Ok"
           /\ last.cmd = Some(AsArray(r))
           /\ hmap = Exec(last.before, AsArray(r), last.at, TRUE).hmap
           /\ last.reply = Some(Exec(last.before, AsArray(r), last.at, TRUE).reply)

\* the same for the requests that carry no operand
C33_InlineNoOperand ==
    \A r \in {q \in InlineRequests : Len(q) = 1} :
        Fresh(inline(r))
        => /\ last.how = "Ok"
           /\ last.cmd = Some(AsArray(r))
           /\ hmap = last.before
           /\ last.reply = Some(Exec(last.before, AsArray(r), last.at, TRUE).reply)

\* the command a request of OperandRequests stands for: the variant of its
\* verb with the operands as the tokens give them
Operands(r) ==
    CASE r[1] = Verb("Ping") -> [op |-> "Ping"]
      [] r[1] = Verb("Get") -> [op |-> "Get", key |-> r[2]]
      [] r[1] = Verb("Set") -> [op |-> "Set", key |-> r[2], value |-> r[3], ttl |-> None]
      [] r[1] = Verb("Del") -> [op |-> "Del", keys |-> Tail(r)]
      [] r[1] = Verb("Lpush") -> [op |-> "Lpush", key |-> r[2], values |-> Tail(Tail(r))]
      [] r[1] = Verb("Rpush") -> [op |-> "Rpush", key |-> r[2], values |-> Tail(Tail(r))]
      [] r[1] = Verb("Lpop") ->
            [op |-> "Lpop", key |-> r[2],
             count |-> IF Len(r) = 3 THEN Some(DecValue(r[3])) ELSE None]
      [] r[1] = Verb("Rpop") ->
            [op |-> "Rpop", key |-> r[2],
             count |-> IF Len(r) = 3 THEN Some(DecValue(r[3])) ELSE None]
      [] r[1] = Verb("HMSet") ->
            [op |-> "HMset", key |-> r[2], fields_and_values |-> Tail(Tail(r))]

\* C34: the bulk strings of a supported command, under the array header,
\* without it or under a header that miscounts, parse to the variant of the
\* verb with every operand as sent and in the order sent.
C34_OperandsAsSent ==
    /\ \A r \in OperandRequests : \A bytes \in {resp_frame(r), headless(r)} :
           Fresh(bytes) => last.cmd = Some(Operands(r))
    /\ \A r \in UpperRequests :
           Fresh(counted(9, r)) => last.cmd = Some(Operands(r))

\* the same for the verbs other than HMSET
C34_ListedVerbs ==
    /\ \A r \in {q \in OperandRequests : q[1] # Verb("HMSet")} :
           \A bytes \in {resp_frame(r), headless(r)} :
               Fresh(bytes) => last.cmd = Some(Operands(r))
    /\ \A r \in UpperRequests :
           Fresh(counted(9, r)) => last.cmd = Some(Operands(r))

\* key, value and seconds of SETEX k seconds v and of SET k v EX seconds
ExpKey(r) == r[2]
ExpValue(r) == IF r[1] = Verb("SetEx") THEN r[4] ELSE r[3]
ExpSeconds(r) == DecValue(IF r[1] = Verb("SetEx") THEN r[3] ELSE r[5])

\* C35: SETEX k seconds v and SET k v EX seconds parse to the same command,
\* Set with the duration of that many seconds; either leaves k holding v
\* until `seconds` after the time of the command and is answered OK.
C35_SetExAsSetEx ==
    \A r \in ExpiringRequests :
        Fresh(resp_frame(r))
        => /\ last.how = "Ok"
           /\ last.cmd = Some([op |-> "Set", key |-> ExpKey(r), value |-> ExpValue(r),
                               ttl |-> Some(ExpSeconds(r) * MillisPerSec)])
           /\ \A q \in ExpiringRequests :
                  (ExpKey(q) = ExpKey(r) /\ ExpValue(q) = ExpValue(r)
                   /\ ExpSeconds(q) = ExpSeconds(r))
                  => parse(resp_frame(q)).cmd = last.cmd.v
           /\ last.reply = Some(ok)
           /\ hmap = insert(last.before, ExpKey(r),
                            TtlPlain(ExpValue(r), last.at + ExpSeconds(r) * MillisPerSec))

C35_Witness ==
    /\ Fresh(resp_frame(<<Verb("SetEx"), K_a, N_1, V_v>>))
    /\ last.how = "Ok"
    /\ hmap[K_a] = TtlPlain(V_v, last.at + MillisPerSec)
    /\ \E j \in DOMAIN log :
           /\ log[j].tok # last.tok
           /\ log[j].cmd = last.cmd.v
           /\ net.conn[log[j].tok].sent[1].frame
                  = resp_frame(<<Verb("Set"), K_a, V_v, B_EX, N_1>>)

IsList(h, key) == key \in DOMAIN h /\ h[key].t = "List"

\* C36: LPUSHX/RPUSHX k v.. pushes the values when k holds a list and is
\* then answered with the new length of the list; otherwise it is answered
\* with 0 and creates no key.
C36_PushX ==
    \A r \in PushXRequests :
        Fresh(resp_frame(r))
        => /\ last.how = "Ok"
           /\ IF IsList(last.before, r[2])
              THEN /\ IsList(hmap, r[2])
                   /\ Len(hmap[r[2]].items) = Len(last.before[r[2]].items) + Len(r) - 2
                   /\ last.reply = Some(write_integer(to_string(Len(hmap[r[2]].items))))
              ELSE /\ hmap = last.before
                   /\ last.reply = Some(write_integer(to_string(0)))

\* what a tolerated request is answered with
Tolerated(r) == IF r[1] = Verb("ClientSetInfo") THEN ok ELSE write_array(<<>>, 0)

\* C37: CLIENT SETINFO, CLIENT SETNAME, CONFIG GET/SET and COMMAND DOCS are
\* answered whatever operands follow, CLIENT with OK and the others with an
\* empty array, and leave the keyspace as it was.
C37_Tolerated ==
    \A r \in ToleratedRequests :
        Fresh(resp_frame(r))
        => /\ last.how = "Ok"
           /\ last.reply = Some(Tolerated(r))
           /\ hmap = last.before

\* the same for the requests other than CLIENT SETNAME
C37_ButSetName ==
    \A r \in {q \in ToleratedRequests : q[2] # T_SETNAME} :
        Fresh(resp_frame(r))
        => /\ last.how = "Ok"
           /\ last.reply = Some(Tolerated(r))
           /\ hmap = last.before

\* a write to connection t has failed
WriteFailed(t) == \E j \in DOMAIN net.conn[t].out : ~net.conn[t].out[j].whole

\* C38: a connection whose read returns 0 or fails, or a write to which
\* fails, is removed, and only such a connection is; the loop keeps running
\* for the others.
C38_DropsOnlyTheFailed ==
    /\ last.how = "closed" => (last.tok \notin DOMAIN clients /\ status = "running")
    /\ \A t \in DOMAIN net.conn :
           /\ WriteFailed(t) => (t \notin DOMAIN clients /\ status = "running")
           /\ t \notin DOMAIN clients => (net.conn[t].peer # "open" \/ WriteFailed(t))

\* the same without the failing writes
C38_ReadSide ==
    /\ last.how = "closed" => (last.tok \notin DOMAIN clients /\ status = "running")
    /\ \A t \in DOMAIN net.conn :
           t \notin DOMAIN clients => net.conn[t].peer # "open"

\* every frame connection s has sent is whole and well-formed, it came in
\* one segment and the parser has rejected nothing
SentWhole(s) ==
    /\ net.splits = 0
    /\ \A j \in DOMAIN s.out : s.out[j].reply # generic_error("invalid input")
    /\ \A j \in DOMAIN s.sent : s.sent[j].frame \in WellFormed

\* C39: every whole command a connection has sent is executed and answered,
\* also the second of two that arrive in one read: once the server has no
\* event left for an open connection and nothing is in flight, it has
\* written one reply for each command of that connection.
C39_NothingStranded ==
    \A t \in DOMAIN net.conn :
        (status = "running" /\ t \in DOMAIN clients
            /\ Quiet(net.conn[t]) /\ SentWhole(net.conn[t]))
        => Len(net.conn[t].out) = Len(net.conn[t].sent)

\* the same for commands that each arrive in a read of their own
C39_OnePerRead ==
    \A t \in DOMAIN net.conn :
        (status = "running" /\ t \in DOMAIN clients
            /\ Quiet(net.conn[t]) /\ SentWhole(net.conn[t])
            /\ \A j \in DOMAIN net.conn[t].sent : net.conn[t].sent[j].replies = j - 1)
        => Len(net.conn[t].out) = Len(net.conn[t].sent)

\* the histogram name of the verb of each command of SpecHash
OwnVerb ==
    [op \in {"Hget", "HMget", "HMset", "HgetAll", "HincrBy", "Hexists", "Hkeys", "Set"} |->
        CASE op = "Hget"    -> "hget"
          [] op = "HMget"   -> "hmget"
          [] op = "HMset"   -> "hmset"
          [] op = "HgetAll" -> "hgetall"
          [] op = "HincrBy" -> "hincrby"
          [] op = "Hexists" -> "hexists"
          [] op = "Hkeys"   -> "hkeys"
          [] op = "Set"     -> "set"]

\* the commands executed and answered so far
Answered == {j \in DOMAIN log : log[j].answered}

\* how many samples the histogram `name` holds
Samples(name) == IF name \in DOMAIN latency_histograms THEN latency_histograms[name] ELSE 0

\* C40: each executed command has added one sample to the histogram named
\* after its own verb and to no other; what the parser rejects adds none.
C40_OwnHistogram ==
    /\ \A j \in Answered : log[j].cmd.op \in DOMAIN OwnVerb
    /\ \A name \in DOMAIN latency_histograms \cup {OwnVerb[op] : op \in DOMAIN OwnVerb} :
           Samples(name) = Cardinality({j \in Answered : OwnVerb[log[j].cmd.op] = name})

RECURSIVE TotalSamples(_)
TotalSamples(names) ==
    IF names = {} THEN 0
    ELSE LET n == CHOOSE x \in names : TRUE
         IN  latency_histograms[n] + TotalSamples(names \ {n})

\* the total number of samples is the number of commands executed so far
C40_TotalSamples == TotalSamples(DOMAIN latency_histograms) = Cardinality(Answered)

\* the same as C40_OwnHistogram while no HGETALL has been executed
C40_ButHgetAll ==
    (\A j \in Answered : log[j].cmd.op # "HgetAll")
    => \A name \in DOMAIN latency_histograms \cup {OwnVerb[op] : op \in DOMAIN OwnVerb} :
           Samples(name) = Cardinality({j \in Answered : OwnVerb[log[j].cmd.op] = name})

====
